---- MODULE Spec2Model ----
(***************************************************************************)
(* Model of the assistant's core:                                          *)
(*   backend/core/llm_manager.py       ToolCall, LLMManager                *)
(*   backend/core/currency_converter.py CurrencyConverter                  *)
(*   backend/core/agent.py             IntentParser, BizzHubKnowledgeBase, *)
(*                                     ResponseGenerator, BizzHubChatbot   *)
(*   backend/core/rag_system.py        FAQRAGSystem                        *)
(*   backend/tests/test_vercel_compat.py InvoiceStorage, as the tests use it *)
(* Values returned by Python code are modelled as records of one shape so  *)
(* that any two of them can be compared.  Text the code only passes along  *)
(* is a TLA+ string; text the code inspects character by character (the    *)
(* arithmetic expression, the prompt that is truncated) is a sequence of   *)
(* one-character strings.                                                  *)
(***************************************************************************)
EXTENDS Integers, Sequences, FiniteSets, TLC

VARIABLES
    providers,          \* LLMManager.providers: the configured providers (dict keys)
    active_provider,    \* LLMManager.active_provider ("none" models None)
    tool_registry,      \* LLMManager.tool_registry: the registered tool names (dict keys)
    cache,              \* CurrencyConverter.cache: cache key -> rate
    last_cache_update,  \* CurrencyConverter.last_cache_update: cache key -> time
    now,                \* datetime.now(), in minutes
    pending,            \* the ToolCall object constructed and not yet executed
    last,               \* what the last operation was given, did and returned
    conversation_history, \* BizzHubChatbot.conversation_history
    faqs,               \* FAQRAGSystem.faqs
    faq_vectors,        \* FAQRAGSystem.faq_vectors
    vectorizer,         \* FAQRAGSystem.vectorizer: its fitted vocabulary
    threads,            \* where a thread inside add_faq and a thread inside
                        \* get_answer stand
    replied               \* what the last chatbot, knowledge-base or FAQ operation
                        \* was given, did and returned

vars == <<providers, active_provider, tool_registry, cache, last_cache_update,
          now, pending, last, conversation_history, faqs, faq_vectors,
          vectorizer, threads, replied>>

\* the state of the language-model layer and the state of the chatbot
managerVars == <<providers, active_provider, tool_registry, cache,
                 last_cache_update, pending, last>>
faqVars == <<faqs, faq_vectors, vectorizer, threads>>
chatVars == <<conversation_history, faqVars, replied>>

----------------------------------------------------------------------------
(* Bounds of the model *)

\* longest arithmetic expression enumerated character by character
MaxExprLen == 4
\* longest prompt; one more than the echo length so that truncation happens
MaxPromptLen == 101

(* Program constants *)

\* prompt[:100] in the fallback response
PromptEchoLen == 100
\* timedelta(minutes=30)
CacheDurationMinutes == 30

----------------------------------------------------------------------------
(* Python values *)

NoneVal == [kind |-> "none", num |-> 0, str |-> "", chars |-> <<>>]
IntVal(n) == [kind |-> "int", num |-> n, str |-> "", chars |-> <<>>]
StrVal(s) == [kind |-> "str", num |-> 0, str |-> s, chars |-> <<>>]
\* a str whose characters the code looks at
TextVal(cs) == [kind |-> "text", num |-> 0, str |-> "", chars |-> cs]
\* a float holding an amount of money, in hundredths
MoneyVal(h) == [kind |-> "money", num |-> h, str |-> "", chars |-> <<>>]
\* the string time.strftime builds from the clock
TimeVal(t) == [kind |-> "timestr", num |-> t, str |-> "", chars |-> <<>>]
\* a dict nested inside another dict
DictVal == [kind |-> "dict", num |-> 0, str |-> "", chars |-> <<>>]
\* an exception leaving the callee
Raise(exc) == [kind |-> "raise", num |-> 0, str |-> exc, chars |-> <<>>]

IsRaise(v) == v.kind = "raise"

\* dict.get(key, default)
Get(d, key, default) == IF key \in DOMAIN d THEN d[key] ELSE default

EmptyDict == [k \in {} |-> NoneVal]

----------------------------------------------------------------------------
(* The arithmetic whitelist of ToolCall.execute and Python's eval on the   *)
(* expressions that pass it.                                               *)

Digits == {"0", "1", "2", "3", "4", "5", "6", "7", "8", "9"}
\* \s, of which the model writes the blank
Whitespace == {" "}
\* the character class [0-9+\-*/().\s]
WhitelistChars == Digits \cup {"+", "-", "*", "/", "(", ")", "."} \cup Whitespace

\* re.match(r'^[0-9+\-*/().\s]+$', expression): one or more characters, all
\* of the class
MatchesWhitelist(expression) ==
    /\ Len(expression) >= 1
    /\ \A i \in 1..Len(expression) : expression[i] \in WhitelistChars

DigitValue(c) ==
    CASE c = "0" -> 0 [] c = "1" -> 1 [] c = "2" -> 2 [] c = "3" -> 3
      [] c = "4" -> 4 [] c = "5" -> 5 [] c = "6" -> 6 [] c = "7" -> 7
      [] c = "8" -> 8 [] c = "9" -> 9

Tok(t, n) == [t |-> t, n |-> n]
BadTok == Tok("bad", 0)

\* the digits of cs from position i on: <<value, first position after them,
\* whether the literal is a nonzero one with a leading zero>>
RECURSIVE ScanNumber(_, _, _, _)
ScanNumber(cs, i, acc, first) ==
    IF i <= Len(cs) /\ cs[i] \in Digits
    THEN ScanNumber(cs, i + 1, acc * 10 + DigitValue(cs[i]), first)
    ELSE <<acc, i, cs[first] = "0" /\ acc # 0>>

RECURSIVE Tokenize(_, _)

\* the number token scanned as r, then the rest
AfterNumber(cs, r) ==
    IF r[3] THEN <<BadTok>> ELSE <<Tok("num", r[1])>> \o Tokenize(cs, r[2])

\* Python's tokenizer on the characters the model enumerates: decimal
\* integers, + - * ** ( ) and blanks.  "/" and "." are not tokenized.
Tokenize(cs, i) ==
    IF i > Len(cs) THEN <<>>
    ELSE IF cs[i] \in Whitespace THEN Tokenize(cs, i + 1)
    ELSE IF cs[i] \in Digits THEN AfterNumber(cs, ScanNumber(cs, i, 0, i))
    ELSE IF cs[i] = "*" /\ i < Len(cs) /\ cs[i + 1] = "*"
        THEN <<Tok("**", 0)>> \o Tokenize(cs, i + 2)
    ELSE IF cs[i] \in {"+", "-", "*", "(", ")"}
        THEN <<Tok(cs[i], 0)>> \o Tokenize(cs, i + 1)
    ELSE <<BadTok>>

\* result of parsing from a position: ok, value, next position
PR(ok, v, p) == [ok |-> ok, v |-> v, p |-> p]
PFail == PR(FALSE, 0, 0)

RECURSIVE IntPow(_, _)
IntPow(b, e) == IF e = 0 THEN 1 ELSE b * IntPow(b, e - 1)

RECURSIVE ParseExpr(_, _), ExprRest(_, _), ParseTerm(_, _), TermRest(_, _),
          ParseFactor(_, _), ParsePower(_, _), ParseAtom(_, _)

\* the token at the position a parse stopped at, "" at the end
TokAt(ts, r) == IF r.ok /\ r.p <= Len(ts) THEN ts[r.p].t ELSE ""

\* '(' expr ')' once expr is parsed
CloseParen(ts, e) ==
    IF TokAt(ts, e) = ")" THEN PR(TRUE, e.v, e.p + 1) ELSE PFail

\* atom: NUMBER | '(' expr ')'
ParseAtom(ts, p) ==
    IF p > Len(ts) THEN PFail
    ELSE IF ts[p].t = "num" THEN PR(TRUE, ts[p].n, p + 1)
    ELSE IF ts[p].t = "(" THEN CloseParen(ts, ParseExpr(ts, p + 1))
    ELSE PFail

\* a ** f; a negative exponent gives a float, which the model does not
\* represent
Power(a, f) ==
    IF f.ok /\ f.v >= 0 THEN PR(TRUE, IntPow(a.v, f.v), f.p) ELSE PFail

PowerRest(ts, a) ==
    IF TokAt(ts, a) = "**" THEN Power(a, ParseFactor(ts, a.p + 1)) ELSE a

\* power: atom ['**' factor]
ParsePower(ts, p) == PowerRest(ts, ParseAtom(ts, p))

Negate(f) == IF f.ok THEN PR(TRUE, 0 - f.v, f.p) ELSE PFail

\* factor: ('+' | '-') factor | power
ParseFactor(ts, p) ==
    IF p > Len(ts) THEN PFail
    ELSE IF ts[p].t = "+" THEN ParseFactor(ts, p + 1)
    ELSE IF ts[p].t = "-" THEN Negate(ParseFactor(ts, p + 1))
    ELSE ParsePower(ts, p)

\* acc op f for a binary operator
Binary(op, acc, f) ==
    IF ~f.ok THEN PFail
    ELSE PR(TRUE,
            CASE op = "*" -> acc.v * f.v
              [] op = "+" -> acc.v + f.v
              [] op = "-" -> acc.v - f.v,
            f.p)

\* term: factor ('*' factor)*
TermRest(ts, acc) ==
    IF TokAt(ts, acc) = "*"
    THEN TermRest(ts, Binary("*", acc, ParseFactor(ts, acc.p + 1)))
    ELSE acc

ParseTerm(ts, p) == TermRest(ts, ParseFactor(ts, p))

\* expr: term (('+' | '-') term)*
ExprRest(ts, acc) ==
    IF TokAt(ts, acc) \in {"+", "-"}
    THEN ExprRest(ts, Binary(TokAt(ts, acc), acc, ParseTerm(ts, acc.p + 1)))
    ELSE acc

ParseExpr(ts, p) == ExprRest(ts, ParseTerm(ts, p))

\* the value of a token sequence parsed up to e
EvalParsed(ts, e) ==
    IF \E i \in 1..Len(ts) : ts[i].t = "bad" THEN Raise("SyntaxError")
    ELSE IF e.ok /\ e.p = Len(ts) + 1 THEN IntVal(e.v)
    ELSE Raise("SyntaxError")

EvalTokens(ts) == EvalParsed(ts, ParseExpr(ts, 1))

\* eval(expression) for a whitelisted expression of the characters above:
\* its integer value, or the exception eval raises.  The expressions the
\* model evaluates have no "()" (the empty tuple) and no negative exponent.
PyEval(expression) == EvalTokens(Tokenize(expression, 1))

----------------------------------------------------------------------------
(* CurrencyConverter (currency_converter.py) *)

\* str.upper() on the currency codes of the model
Upper(code) == IF code = "usd" THEN "USD" ELSE code

\* what requests.get answers: a transport error, a body without 'rates', or
\* a rates table
NetError == [kind |-> "error", rates |-> EmptyDict]
NetMalformed == [kind |-> "malformed", rates |-> EmptyDict]
NetRates(t) == [kind |-> "rates", rates |-> t]
RateTables == { [USD |-> 100, EUR |-> 90, INR |-> 8000] }
NetReplies == {NetError, NetMalformed} \cup {NetRates(t) : t \in RateTables}

\* the outcome of a call on the converter: what it returns or raises, the
\* cache it leaves, and whether it asked the rate service
Outcome(ret, c, u) ==
    [ret |-> ret, cache |-> c, last_cache_update |-> u, fetched |-> FALSE]

\* a rate is the quotient to_rate / from_rate, kept as its two terms
RateVal(n, d) == [kind |-> "rate", num |-> n, den |-> d, str |-> ""]
RateRaise(exc) == [kind |-> "raise", num |-> 0, den |-> 1, str |-> exc]

_fetch_exchange_rate(from_currency, to_currency, net) ==
    IF net.kind = "error" THEN RateRaise("RuntimeError")
    ELSE IF net.kind = "malformed" THEN RateRaise("ValueError")
    ELSE IF from_currency \notin DOMAIN net.rates THEN RateRaise("ValueError")
    ELSE IF to_currency \notin DOMAIN net.rates THEN RateRaise("ValueError")
    ELSE RateVal(net.rates[to_currency], net.rates[from_currency])

\* the dict d with d[key] = value
Store(d, key, value) ==
    [k \in DOMAIN d \cup {key} |-> IF k = key THEN value ELSE d[k]]

\* the end of get_exchange_rate once the rate service has been asked: a
\* raise leaves the cache alone
CacheFetched(cache_key, rate, c, u, t) ==
    [(IF rate.kind = "raise" THEN Outcome(rate, c, u)
      ELSE Outcome(rate, Store(c, cache_key, rate), Store(u, cache_key, t)))
     EXCEPT !.fetched = TRUE]

\* cache_key = f"{from_currency}_{to_currency}"
CacheKey(from_currency, to_currency) == from_currency \o "_" \o to_currency

\* a cached rate served whatever its age
get_exchange_rate_no_expiry(from_currency, to_currency, c, u, t, net) ==
    IF CacheKey(from_currency, to_currency) \in DOMAIN c
    THEN Outcome(c[CacheKey(from_currency, to_currency)], c, u)
    ELSE CacheFetched(CacheKey(from_currency, to_currency),
                      _fetch_exchange_rate(from_currency, to_currency, net),
                      c, u, t)

get_exchange_rate(from_currency, to_currency, c, u, t, net) ==
    IF CacheKey(from_currency, to_currency) \in DOMAIN c
       /\ t - u[CacheKey(from_currency, to_currency)] < CacheDurationMinutes
    THEN Outcome(c[CacheKey(from_currency, to_currency)], c, u)
    ELSE CacheFetched(CacheKey(from_currency, to_currency),
                      _fetch_exchange_rate(from_currency, to_currency, net),
                      c, u, t)

\* round(x, 2) of the quotient n / d, in hundredths (ties to even)
RoundHundredths(n, d) ==
    LET q == (100 * n) \div d
        r == (100 * n) % d
    IN  IF 2 * r < d THEN q
        ELSE IF 2 * r > d THEN q + 1
        ELSE IF q % 2 = 0 THEN q ELSE q + 1

\* round(amount * rate, 2) once the rate is there
Converted(amount, o) ==
    [(IF o.ret.kind = "raise"
      THEN Outcome(Raise(o.ret.str), o.cache, o.last_cache_update)
      ELSE Outcome(MoneyVal(RoundHundredths(amount.num * o.ret.num, o.ret.den)),
                   o.cache, o.last_cache_update))
     EXCEPT !.fetched = o.fetched]

\* amount is an int value, the codes are str values
convert_amount(amount, from_currency, to_currency, c, u, t, net) ==
    IF Upper(from_currency.str) = Upper(to_currency.str)
    THEN Outcome(amount, c, u)
    ELSE Converted(amount,
                   get_exchange_rate(Upper(from_currency.str),
                                     Upper(to_currency.str), c, u, t, net))

convert_currency(amount, from_currency, to_currency, c, u, t, net) ==
    convert_amount(amount, from_currency, to_currency, c, u, t, net)

----------------------------------------------------------------------------
(* ToolCall (llm_manager.py) *)

\* the names bound at module level of llm_manager.py: its imports and its
\* own classes and functions
ModuleGlobals ==
    {"os", "time", "genai", "Dict", "List", "Optional", "Any", "Callable",
     "Enum", "requests", "openai", "convert_currency",
     "LLMProvider", "ToolCall", "LLMManager", "llm_manager",
     "generate_with_fallback"}

\* the body of the try block of the calculate branch: the value it returns
\* or the exception it raises
CalculateBody(expression) ==
    IF "re" \notin ModuleGlobals THEN Raise("NameError")
    ELSE IF MatchesWhitelist(expression.chars) THEN PyEval(expression.chars)
    ELSE StrVal("Invalid expression")

\* one call of Python's eval: what the text evaluated is, and whether the
\* code matched it against the arithmetic whitelist before
EvalCall(text, whitelisted) == [text |-> text, whitelisted |-> whitelisted]

\* the calls of eval the try block makes
CalculateEvals(expression) ==
    IF "re" \in ModuleGlobals /\ MatchesWhitelist(expression.chars)
    THEN <<EvalCall("expression", TRUE)>>
    ELSE <<>>

\* the try statement around it: the bare except answers any exception
Calculate(body) == IF IsRaise(body) THEN StrVal("Calculation error") ELSE body

\* ToolCall(name, arguments).execute()
execute(name, arguments, c, u, t, net) ==
    IF name = "currency_converter" THEN
        convert_currency(Get(arguments, "amount", IntVal(0)),
                         Get(arguments, "from_currency", StrVal("USD")),
                         Get(arguments, "to_currency", StrVal("INR")),
                         c, u, t, net)
    ELSE IF name = "get_current_time" THEN Outcome(TimeVal(t), c, u)
    ELSE IF name = "calculate" THEN
        Outcome(Calculate(CalculateBody(Get(arguments, "expression", TextVal(<<>>)))),
                c, u)
    ELSE Outcome([kind |-> "unknown_tool", num |-> 0, str |-> name, chars |-> <<>>],
                 c, u)

----------------------------------------------------------------------------
(* LLMManager (llm_manager.py): construction *)

\* class LLMProvider(Enum), in definition order
LLMProviderOrder == <<"gemini", "openai", "local">>

\* a setup in which the credential read last takes over as active
_setup_providers_last_wins(environ) ==
    [providers |-> (IF "GOOGLE_API_KEY" \in environ THEN {"gemini"} ELSE {})
                   \cup (IF "OPENAI_API_KEY" \in environ THEN {"openai"} ELSE {}),
     active_provider |-> IF "OPENAI_API_KEY" \in environ THEN "openai"
                         ELSE IF "GOOGLE_API_KEY" \in environ THEN "gemini"
                         ELSE "none"]

\* os.getenv of the two credentials; environ is the set of variables set
_setup_providers(environ) ==
    LET s0 == [providers |-> {}, active_provider |-> "none"]
        s1 == IF "GOOGLE_API_KEY" \in environ
              THEN [providers |-> s0.providers \cup {"gemini"},
                    active_provider |-> "gemini"]
              ELSE s0
        s2 == IF "OPENAI_API_KEY" \in environ
              THEN [providers |-> s1.providers \cup {"openai"},
                    active_provider |-> IF s1.active_provider = "none"
                                        THEN "openai" ELSE s1.active_provider]
              ELSE s1
    IN  s2

\* register_tool(name, schema) builds the decorator `wrapper` and returns
\* it; the registry is written only when that decorator is applied to a
\* function, and the caller drops it
register_tool(registry, name) == registry

\* the assignment inside `wrapper`, had it been applied
wrapper(registry, name) ==
    IF \E i \in 1..Len(registry) : registry[i] = name
    THEN registry ELSE Append(registry, name)

DefaultToolNames == <<"currency_converter", "get_current_time", "calculate">>

_register_default_tools(registry) ==
    register_tool(register_tool(register_tool(registry,
        DefaultToolNames[1]), DefaultToolNames[2]), DefaultToolNames[3])

\* the schemas of the registered tools, in insertion order; a schema is
\* identified by its tool's name
get_available_tools(registry) == registry

----------------------------------------------------------------------------
(* LLMManager: one provider call *)

\* the `tools` argument: None or a list of schemas
NoTools == [none |-> TRUE, names |-> <<>>]
ToolList(ns) == [none |-> FALSE, names |-> ns]
\* `if tools:`
ToolsTruthy(tools) == ~tools.none /\ Len(tools.names) > 0

\* a tool invocation request carried by a reply
NoReq == [has |-> FALSE, name |-> "", argform |-> "", arguments |-> EmptyDict]
Req(name, argform, arguments) ==
    [has |-> TRUE, name |-> name, argform |-> argform, arguments |-> arguments]

\* what a provider does with one API call: raise, or answer with a text
\* that may carry a request
ReplyRaise == [kind |-> "raise", text |-> "", req |-> NoReq]
ReplyText(text) == [kind |-> "text", text |-> text, req |-> NoReq]
ReplyReq(text, req) == [kind |-> "text", text |-> text, req |-> req]

\* the value a provider call returns: None or the dict
NoneResult == [isNone |-> TRUE, content |-> "", tool_calls |-> <<>>,
               provider |-> "", echo |-> <<>>]
Result(content, tool_calls, provider) ==
    [isNone |-> FALSE, content |-> content, tool_calls |-> tool_calls,
     provider |-> provider, echo |-> <<>>]

ToolRecord(name, arguments, result) ==
    [name |-> name, arguments |-> arguments, result |-> result]
NoToolRecord == ToolRecord("", EmptyDict, NoneVal)

\* one request sent to a provider's API
ApiCall(provider, stage, prompt, tools, tool) ==
    [provider |-> provider, stage |-> stage, prompt |-> prompt,
     tools |-> tools, tool |-> tool]

\* what a piece of the manager did: its return value, the API calls and
\* tool executions it made, in order, and the converter cache it leaves
Run(result, calls, execs, c, u) ==
    [result |-> result, calls |-> calls, execs |-> execs, evals |-> <<>>,
     cache |-> c, last_cache_update |-> u]

\* the run with the eval calls made before it
WithEvals(run, evals) == [run EXCEPT !.evals = evals \o @]

\* the eval calls ToolCall.execute makes: the calculate branch evaluates
\* the expression once the whitelist has matched it
ToolEvals(name, arguments) ==
    IF name = "calculate"
    THEN CalculateEvals(Get(arguments, "expression", TextVal(<<>>)))
    ELSE <<>>

\* re.search of the tool pattern in the reply text and json.loads of its
\* second group.  The pattern takes the arguments object up to its first
\* closing brace and needs at least one character inside it.
GeminiToolMatch(reply) ==
    IF ~reply.req.has THEN [matched |-> FALSE, group2 |-> FALSE, loads |-> FALSE]
    ELSE IF reply.req.argform = "absent"
        THEN [matched |-> TRUE, group2 |-> FALSE, loads |-> FALSE]
    ELSE IF reply.req.argform = "empty"
        THEN [matched |-> FALSE, group2 |-> FALSE, loads |-> FALSE]
    ELSE IF reply.req.argform = "flat"
        THEN [matched |-> TRUE, group2 |-> TRUE, loads |-> TRUE]
    ELSE [matched |-> TRUE, group2 |-> TRUE, loads |-> FALSE]

\* `return None` of the except clause, or falling off the function's end
Failed(calls, execs, c, u) == Run(NoneResult, calls, execs, c, u)

\* a call without tool handling: the reply text is the content
Plain(provider, call1, reply, c, u) ==
    IF reply.kind = "raise" THEN Failed(<<call1>>, <<>>, c, u)
    ELSE Run(Result(reply.text, <<>>, provider), <<call1>>, <<>>, c, u)

\* the rest of a provider call once tool_call.execute() has ended as o:
\* the follow-up request and the dict returned
AfterTool(provider, prompt, call1, followup, name, arguments, o) ==
    IF IsRaise(o.ret)
    THEN Failed(<<call1>>, <<ToolRecord(name, arguments, o.ret)>>,
                o.cache, o.last_cache_update)
    ELSE IF followup.kind = "raise"
    THEN Failed(<<call1, ApiCall(provider, "followup", prompt, <<>>,
                                 ToolRecord(name, arguments, o.ret))>>,
                <<ToolRecord(name, arguments, o.ret)>>,
                o.cache, o.last_cache_update)
    ELSE Run(Result(followup.text, <<ToolRecord(name, arguments, o.ret)>>, provider),
             <<call1, ApiCall(provider, "followup", prompt, <<>>,
                              ToolRecord(name, arguments, o.ret))>>,
             <<ToolRecord(name, arguments, o.ret)>>,
             o.cache, o.last_cache_update)

\* ToolCall(name, arguments).execute() and what follows it
RunTool(provider, prompt, call1, followup, name, arguments, c, u, t, net) ==
    WithEvals(AfterTool(provider, prompt, call1, followup, name, arguments,
                        execute(name, arguments, c, u, t, net)),
              ToolEvals(name, arguments))

\* the `if tools:` branch of _call_gemini, m being the match in the reply;
\* without a match, or without the arguments group, no return is reached
GeminiWithTools(prompt, call1, rs, m, c, u, t, net) ==
    IF rs[1].kind = "raise" THEN Failed(<<call1>>, <<>>, c, u)
    ELSE IF ~m.matched THEN Failed(<<call1>>, <<>>, c, u)
    ELSE IF ~m.group2 THEN Failed(<<call1>>, <<>>, c, u)
    ELSE IF ~m.loads THEN Failed(<<call1>>, <<>>, c, u)
    ELSE RunTool("gemini", prompt, call1, rs[2],
                 rs[1].req.name, rs[1].req.arguments, c, u, t, net)

\* _call_gemini(prompt, tools); rs is what the model answers to the first
\* and to the follow-up generate_content
_call_gemini(prompt, tools, rs, c, u, t, net) ==
    IF "gemini" \notin providers THEN Failed(<<>>, <<>>, c, u)
    ELSE IF ToolsTruthy(tools)
    THEN GeminiWithTools(prompt,
             ApiCall("gemini", "first", prompt, tools.names, NoToolRecord),
             rs, GeminiToolMatch(rs[1]), c, u, t, net)
    ELSE Plain("gemini", ApiCall("gemini", "first", prompt, <<>>, NoToolRecord),
               rs[1], c, u)

\* eval(message.function_call.arguments): "{}" and a JSON object of numbers
\* and strings are Python dict displays too; one holding true, false or
\* null is read as a display with an unbound name
OpenAIArguments(req) ==
    IF req.argform \in {"empty", "flat"}
    THEN [raised |-> FALSE, value |-> req.arguments]
    ELSE [raised |-> TRUE, value |-> EmptyDict]

\* the `if tools:` branch of _call_openai, decoded being the evaluated
\* arguments of the function call: eval is applied to the arguments text as
\* the provider sent it
OpenAIWithTools(prompt, call1, rs, decoded, c, u, t, net) ==
    IF rs[1].kind = "raise" THEN Failed(<<call1>>, <<>>, c, u)
    ELSE IF ~rs[1].req.has THEN Plain("openai", call1, rs[1], c, u)
    ELSE WithEvals(IF decoded.raised THEN Failed(<<call1>>, <<>>, c, u)
                   ELSE RunTool("openai", prompt, call1, rs[2],
                                rs[1].req.name, decoded.value, c, u, t, net),
                   <<EvalCall("function_call.arguments", FALSE)>>)

\* _call_openai(prompt, tools); the first request carries the schemas of
\* self.get_available_tools(), not the `tools` argument
_call_openai(prompt, tools, rs, c, u, t, net) ==
    IF ToolsTruthy(tools)
    THEN OpenAIWithTools(prompt,
             ApiCall("openai", "first", prompt,
                     get_available_tools(tool_registry), NoToolRecord),
             rs, OpenAIArguments(rs[1].req), c, u, t, net)
    ELSE Plain("openai", ApiCall("openai", "first", prompt, <<>>, NoToolRecord),
               rs[1], c, u)

----------------------------------------------------------------------------
(* LLMManager: generate_response and health_check *)

\* `if result:` on what a provider call returned: None is false, the dict
\* (it has three keys) is true
ResultTruthy(result) == ~result.isNone

\* an echo that is not truncated
PromptEchoWhole(prompt) == prompt

\* prompt[:100]
PromptEcho(prompt) ==
    SubSeq(prompt, 1, IF Len(prompt) < PromptEchoLen THEN Len(prompt) ELSE PromptEchoLen)

\* the dict of the last return statement; its content is the apology
\* followed by the echo and "..."
FallbackResult(prompt) ==
    [isNone |-> FALSE, content |-> "I'm sorry, but I couldn't process your request.",
     tool_calls |-> <<>>, provider |-> "fallback", echo |-> PromptEcho(prompt)]

\* the progress of one generate_response: whether it has returned, and the
\* provider calls made so far with what each returned
Progress(returned, run, attempts) ==
    [returned |-> returned, run |-> run, attempts |-> attempts]

AttemptRecord(provider, result) == [provider |-> provider, result |-> result]

\* `if result: return result` on the outcome r of a provider call
Tried(g, provider, r) ==
    Progress(ResultTruthy(r.result),
             WithEvals(Run(r.result, g.run.calls \o r.calls,
                           g.run.execs \o r.execs,
                           r.cache, r.last_cache_update),
                       g.run.evals \o r.evals),
             Append(g.attempts, AttemptRecord(provider, r.result)))

\* call one provider, then `if result: return result`
Try(g, provider, prompt, tools, env, t, net) ==
    Tried(g, provider,
          IF provider = "gemini"
          THEN _call_gemini(prompt, tools, env.gemini,
                            g.run.cache, g.run.last_cache_update, t, net)
          ELSE _call_openai(prompt, tools, env.openai,
                            g.run.cache, g.run.last_cache_update, t, net))

\* a loop condition that does not leave the active provider out
FallbackCandidateAny(provider) == provider \in providers

\* a loop condition with the comparison inverted
FallbackCandidateActiveOnly(provider) ==
    provider = active_provider /\ provider \in providers

\* the condition of the fallback loop's body
FallbackCandidate(provider) ==
    provider # active_provider /\ provider \in providers

\* for provider in LLMProvider: ...
RECURSIVE FallbackLoop(_, _, _, _, _, _, _)
FallbackLoop(g, i, prompt, tools, env, t, net) ==
    IF g.returned \/ i > Len(LLMProviderOrder) THEN g
    ELSE IF FallbackCandidate(LLMProviderOrder[i])
            /\ LLMProviderOrder[i] \in {"gemini", "openai"}
        THEN FallbackLoop(Try(g, LLMProviderOrder[i], prompt, tools, env, t, net),
                          i + 1, prompt, tools, env, t, net)
    ELSE FallbackLoop(g, i + 1, prompt, tools, env, t, net)

\* tools = self.get_available_tools() if use_tools else None
GenerateTools(use_tools) ==
    IF use_tools THEN ToolList(get_available_tools(tool_registry)) ELSE NoTools

\* "Try primary provider first": one `if` per provider
TryActive(g, provider, prompt, tools, env, t, net) ==
    IF ~g.returned /\ active_provider = provider /\ provider \in providers
    THEN Try(g, provider, prompt, tools, env, t, net)
    ELSE g

\* the last return statement, reached when nothing returned before
OrFallback(g, prompt) ==
    IF g.returned THEN g
    ELSE Progress(TRUE,
             WithEvals(Run(FallbackResult(prompt), g.run.calls, g.run.execs,
                           g.run.cache, g.run.last_cache_update),
                       g.run.evals),
             g.attempts)

generate_response(prompt, use_tools, env, c, u, t, net) ==
    OrFallback(
        FallbackLoop(
            TryActive(
                TryActive(Progress(FALSE, Run(NoneResult, <<>>, <<>>, c, u), <<>>),
                          "gemini", prompt, GenerateTools(use_tools), env, t, net),
                "openai", prompt, GenerateTools(use_tools), env, t, net),
            1, prompt, GenerateTools(use_tools), env, t, net),
        prompt)

\* health_status: for every configured provider, whether its canary call
\* went through; reachable is the set of providers that answer
health_check(reachable) == [p \in providers |-> p \in reachable]

----------------------------------------------------------------------------
(* Inputs *)

\* a prompt of n characters
PromptOfLen(n) == [i \in 1..n |-> IF i % 2 = 1 THEN "a" ELSE "b"]
Prompts == {PromptOfLen(n) : n \in {0, PromptEchoLen, MaxPromptLen}}

\* the tool invocation requests a model may answer with
ReqCalc == Req("calculate", "flat",
               [expression |-> TextVal(<<"2", "+", "2", "*", "5">>)])
ReqConvert == Req("currency_converter", "flat",
                  [amount |-> IntVal(100), from_currency |-> StrVal("usd"),
                   to_currency |-> StrVal("INR")])
ReqConvertUnsupported ==
    Req("currency_converter", "flat",
        [amount |-> IntVal(100), from_currency |-> StrVal("XXX"),
         to_currency |-> StrVal("INR")])
ReqTimeNoArguments == Req("get_current_time", "absent", EmptyDict)
ReqTimeEmptyArguments == Req("get_current_time", "empty", EmptyDict)
ReqUnknownTool == Req("weather", "flat", [city |-> StrVal("Pune")])
ReqNestedArguments == Req("calculate", "nested",
                          [expression |-> TextVal(<<"2">>), options |-> DictVal])
ReqLiteralArguments == Req("calculate", "json_literal",
                           [expression |-> TextVal(<<"2">>), exact |-> NoneVal])

GeminiRequests == {ReqCalc, ReqConvert, ReqConvertUnsupported, ReqTimeNoArguments,
                   ReqTimeEmptyArguments, ReqUnknownTool, ReqNestedArguments}
OpenAIRequests == {ReqCalc, ReqConvert, ReqConvertUnsupported,
                   ReqTimeEmptyArguments, ReqUnknownTool, ReqLiteralArguments}

RequestText == "tool request"

\* first and follow-up answers of each provider
GeminiFirst == {ReplyRaise, ReplyText(""), ReplyText("gemini text")}
                 \cup {ReplyReq(RequestText, r) : r \in GeminiRequests}
OpenAIFirst == {ReplyRaise, ReplyText(""), ReplyText("openai text")}
                 \cup {ReplyReq(RequestText, r) : r \in OpenAIRequests}
GeminiFollowup == {ReplyRaise, ReplyText("gemini final")}
OpenAIFollowup == {ReplyRaise, ReplyText("openai final")}

Env(g, o) == [gemini |-> g, openai |-> o]
NoEnv == Env(<<ReplyRaise, ReplyRaise>>, <<ReplyRaise, ReplyRaise>>)

\* the answers generate_response is run against
GenGeminiFirst == {ReplyRaise, ReplyText(""), ReplyText("gemini text"),
                   ReplyReq(RequestText, ReqCalc)}
GenOpenAIFirst == {ReplyRaise, ReplyText(""), ReplyText("openai text"),
                   ReplyReq(RequestText, ReqCalc)}
GenEnvs == {Env(<<g1, IF followup THEN ReplyText("gemini final") ELSE ReplyRaise>>,
                <<o1, IF followup THEN ReplyText("openai final") ELSE ReplyRaise>>) :
               g1 \in GenGeminiFirst, o1 \in GenOpenAIFirst, followup \in BOOLEAN}

\* the tool lists a provider call is handed directly
CallTools == {NoTools, ToolList(<<>>), ToolList(DefaultToolNames)}
CallPrompts == {PromptOfLen(2)}

----------------------------------------------------------------------------
(* Python strings the chatbot inspects: TLA+ strings, taken apart with     *)
(* Len, SubSeq and \o                                                      *)

\* a value that is None where a str may stand
NoneStr == "<None>"

\* pattern in text
Contains(text, pattern) ==
    \E i \in 1..(Len(text) - Len(pattern) + 1) :
        SubSeq(text, i, i + Len(pattern) - 1) = pattern

\* any(pattern in text for pattern in patterns)
AnyIn(patterns, text) ==
    \E k \in 1..Len(patterns) : Contains(text, patterns[k])

UpperCase == "ABCDEFGHIJKLMNOPQRSTUVWXYZ"
LowerCase == "abcdefghijklmnopqrstuvwxyz"

CharAt(text, i) == SubSeq(text, i, i)

\* the characters of a text, as a set
CharsOf(text) == {CharAt(text, i) : i \in 1..Len(text)}

UpperLetters == CharsOf(UpperCase)
LowerLetters == CharsOf(LowerCase)

ToLower ==
    [c \in UpperLetters |->
        CharAt(LowerCase, CHOOSE i \in 1..Len(UpperCase) : CharAt(UpperCase, i) = c)]
ToUpper ==
    [c \in LowerLetters |->
        CharAt(UpperCase, CHOOSE i \in 1..Len(LowerCase) : CharAt(LowerCase, i) = c)]

IsUpper(c) == c \in UpperLetters
IsLower(c) == c \in LowerLetters

LowerChar(c) == IF IsUpper(c) THEN ToLower[c] ELSE c
UpperChar(c) == IF IsLower(c) THEN ToUpper[c] ELSE c

\* str.lower()
RECURSIVE lower(_)
lower(text) ==
    IF text = "" THEN ""
    ELSE LowerChar(CharAt(text, 1)) \o lower(SubSeq(text, 2, Len(text)))

\* str.title(): a letter that follows a non-letter is upper-cased, any
\* other letter lower-cased
RECURSIVE TitleFrom(_, _)
TitleFrom(text, after_letter) ==
    IF text = "" THEN ""
    ELSE LET c == CharAt(text, 1)
             cased == IsUpper(c) \/ IsLower(c)
         IN (IF after_letter THEN LowerChar(c) ELSE UpperChar(c))
            \o TitleFrom(SubSeq(text, 2, Len(text)), cased)

title(text) == TitleFrom(text, FALSE)

\* separator.join(items)
RECURSIVE join(_, _)
join(separator, items) ==
    IF items = <<>> THEN ""
    ELSE IF Len(items) = 1 THEN items[1]
    ELSE items[1] \o separator \o join(separator, Tail(items))

----------------------------------------------------------------------------
(* IntentParser *)

\* QuestionType
PRICING == "pricing"
CONTACT == "contact"
LOCATION == "location"
FACILITY == "facility"
GENERAL == "general"

UserIntent(type, is_specific, entity, timeframe) ==
    [type |-> type, is_specific |-> is_specific, entity |-> entity,
     timeframe |-> timeframe]

Pattern(entity, patterns) == [entity |-> entity, patterns |-> patterns]

\* the pattern tables are dicts: their entries are visited in the order written
pricing_patterns ==
    << Pattern("co-working", <<"coworking", "shared desk", "hot desk",
                               "shared space", "per seat", "seat cost">>),
       Pattern("private_office", <<"private office", "private cabin",
                                   "dedicated office", "team room">>),
       Pattern("day_pass", <<"day pass", "daily pass", "trial", "visit day">>),
       Pattern("virtual_office", <<"virtual office", "business address",
                                   "mail service">>),
       Pattern("meeting_room", <<"meeting room", "conference room", "board room">>),
       Pattern("parking", <<"parking", "car parking", "vehicle parking">>) >>

location_patterns ==
    << Pattern("koramangala", <<"koramangala", "koramangla">>),
       Pattern("whitefield", <<"whitefield", "itpl">>),
       Pattern("electronic_city", <<"electronic city", "ecity">>),
       Pattern("indiranagar", <<"indiranagar", "indira nagar">>),
       Pattern("mg_road", <<"mg road", "brigade road">>) >>

contact_patterns ==
    << Pattern("sales", <<"sales", "visit", "tour", "demo", "book">>),
       Pattern("support", <<"support", "help", "issue", "problem", "complaint">>),
       Pattern("corporate", <<"corporate", "business", "enterprise", "company">>),
       Pattern("general", <<"contact", "phone", "email", "number", "reach">>) >>

\* the keyword lists of parse
PricingKeywords == <<"price", "cost", "how much", "rate", "fee">>
ContactKeywords == <<"contact", "call", "email", "phone", "number", "visit", "tour">>
LocationKeywords == <<"where", "location", "address", "center", "branch">>
FacilityKeywords == <<"facility", "amenity", "service", "wifi", "internet",
                      "parking", "meeting">>

\* the entries of a table one of whose patterns occurs in the question
Matching(table, question) ==
    {k \in 1..Len(table) : AnyIn(table[k].patterns, question)}

Lowest(S) == CHOOSE k \in S : \A j \in S : k <= j
Highest(S) == CHOOSE k \in S : \A j \in S : k >= j

\* the loop without its break: the last matching entry
MatchEntityNoBreak(table, question) ==
    IF Matching(table, question) = {} THEN NoneStr
    ELSE table[Highest(Matching(table, question))].entity

\* for entity_type, patterns in table.items(): if any(...): entity = ...; break
MatchEntity(table, question) ==
    IF Matching(table, question) = {} THEN NoneStr
    ELSE table[Lowest(Matching(table, question))].entity

Timeframe(question) ==
    IF Contains(question, "month") \/ Contains(question, "monthly") THEN "monthly"
    ELSE IF Contains(question, "day") \/ Contains(question, "daily") THEN "daily"
    ELSE IF Contains(question, "hour") \/ Contains(question, "hourly") THEN "hourly"
    ELSE NoneStr

PricingIntent(entity, timeframe) ==
    UserIntent(PRICING, entity /= NoneStr, entity, timeframe)

\* is_specific taken from the timeframe instead of the entity
_parse_pricing_intent_by_timeframe(question) ==
    UserIntent(PRICING, Timeframe(question) /= NoneStr,
               MatchEntity(pricing_patterns, question), Timeframe(question))

_parse_pricing_intent(question) ==
    PricingIntent(MatchEntity(pricing_patterns, question), Timeframe(question))

EntityIntent(type, entity) == UserIntent(type, entity /= NoneStr, entity, NoneStr)

_parse_contact_intent(question) ==
    EntityIntent(CONTACT, MatchEntity(contact_patterns, question))

_parse_location_intent(question) ==
    EntityIntent(LOCATION, MatchEntity(location_patterns, question))

FacilityEntity(question) ==
    IF Contains(question, "parking") THEN "parking"
    ELSE IF Contains(question, "wifi") \/ Contains(question, "internet")
         THEN "internet"
    ELSE IF Contains(question, "meeting") THEN "meeting_room"
    ELSE IF Contains(question, "24/7") \/ Contains(question, "24 hour")
         THEN "access_hours"
    ELSE NoneStr

_parse_facility_intent(question) ==
    EntityIntent(FACILITY, FacilityEntity(question))

\* the cascade with the contact test before the pricing test
CascadeContactFirst(question_lower) ==
    IF AnyIn(ContactKeywords, question_lower)
    THEN _parse_contact_intent(question_lower)
    ELSE IF AnyIn(PricingKeywords, question_lower)
    THEN _parse_pricing_intent(question_lower)
    ELSE IF AnyIn(LocationKeywords, question_lower)
    THEN _parse_location_intent(question_lower)
    ELSE IF AnyIn(FacilityKeywords, question_lower)
    THEN _parse_facility_intent(question_lower)
    ELSE UserIntent(GENERAL, FALSE, NoneStr, NoneStr)

\* the cascade over the lower-cased question
Cascade(question_lower) ==
    IF AnyIn(PricingKeywords, question_lower)
    THEN _parse_pricing_intent(question_lower)
    ELSE IF AnyIn(ContactKeywords, question_lower)
    THEN _parse_contact_intent(question_lower)
    ELSE IF AnyIn(LocationKeywords, question_lower)
    THEN _parse_location_intent(question_lower)
    ELSE IF AnyIn(FacilityKeywords, question_lower)
    THEN _parse_facility_intent(question_lower)
    ELSE UserIntent(GENERAL, FALSE, NoneStr, NoneStr)

parse(question) == Cascade(lower(question))

----------------------------------------------------------------------------
(* BizzHubKnowledgeBase: dicts are functions from keys to values *)

PricingData ==
    "co-working" :>
        [description |-> "Hot desk in shared workspace",
         monthly |-> "₹8,000 - ₹12,000",
         daily |-> "₹800 - ₹1,200",
         includes |-> <<"Workspace access", "High-speed WiFi", "Tea/Coffee",
                        "Community events", "Basic printing">>]
    @@ "dedicated_desk" :>
        [description |-> "Personal dedicated desk",
         monthly |-> "₹10,000 - ₹15,000",
         includes |-> <<"Personal desk", "24/7 access", "Lockable storage",
                        "Meeting room credits", "Priority support">>]
    @@ "private_cabin_2p" :>
        [description |-> "Private office for 2 people",
         monthly |-> "₹25,000 - ₹30,000",
         includes |-> <<"Private locked room", "2 ergonomic chairs",
                        "Custom branding", "2 meeting room hours/day">>]
    @@ "private_cabin_4p" :>
        [description |-> "Private office for 4 people",
         monthly |-> "₹35,000 - ₹40,000",
         includes |-> <<"Private locked room", "4 ergonomic chairs",
                        "Custom layout", "4 meeting room hours/day">>]
    @@ "day_pass" :>
        [description |-> "Daily workspace access",
         daily |-> "₹800 - ₹1,200",
         includes |-> <<"Basic workspace", "WiFi", "Tea/Coffee", "Common areas">>]
    @@ "virtual_office" :>
        [description |-> "Business address & mail services",
         monthly |-> "₹2,000 - ₹5,000",
         includes |-> <<"Business address", "Mail handling",
                        "Meeting room discount", "Call answering">>]
    @@ "parking" :>
        [description |-> "Dedicated parking spot",
         monthly |-> "₹800 - ₹2,000",
         variations |-> [koramangala |-> "₹1,000/month",
                         whitefield |-> "₹1,500/month",
                         electronic_city |-> "₹800/month",
                         indiranagar |-> "₹1,200/month",
                         mg_road |-> "₹2,000/month"]]
    @@ "meeting_room" :>
        [description |-> "Meeting/conference room",
         hourly |-> "₹500 - ₹1,500",
         variations |-> ("4_seats" :> "₹500/hour" @@ "8_seats" :> "₹800/hour"
                         @@ "12_seats" :> "₹1,200/hour"
                         @@ "board_room" :> "₹1,500/hour")]

CenterContacts ==
    [koramangala |-> [phone |-> "080-4111-2222", manager |-> "Rajesh"],
     whitefield |-> [phone |-> "080-4111-3333", manager |-> "Meera"],
     electronic_city |-> [phone |-> "080-4111-4444", manager |-> "Arjun"],
     indiranagar |-> [phone |-> "080-4111-5555", manager |-> "Sanjay"],
     mg_road |-> [phone |-> "080-4111-6666", manager |-> "Priya"]]

ContactData ==
    [general |-> [phone |-> "080-4111-1000", email |-> "info@bizzhub.com",
                  hours |-> "9 AM - 7 PM",
                  website |-> "https://www.bizzhubworkspaces.com"],
     sales |-> [phone |-> "080-4111-2000", email |-> "sales@bizzhub.com",
                person |-> "Priya Patel", hours |-> "9 AM - 8 PM",
                whatsapp |-> "+91-9876543210"],
     support |-> [phone |-> "080-4111-3000", email |-> "support@bizzhub.com",
                  hours |-> "24/7", emergency |-> "+91-9000000000"],
     centers |-> CenterContacts]

LocationData ==
    [koramangala |-> "3rd Block, 80ft Road, Koramangala",
     whitefield |-> "ITPL Main Road, Whitefield",
     electronic_city |-> "Phase 1, Near Infosys, Electronic City",
     indiranagar |-> "100ft Road, Indiranagar",
     mg_road |-> "Brigade Road Cross, MG Road"]

\* the order in which the location dict is iterated
LocationOrder ==
    <<"koramangala", "whitefield", "electronic_city", "indiranagar", "mg_road">>

FacilityData ==
    [internet |-> [description |-> "High-speed dedicated fiber",
                   speed |-> "100 Mbps", included |-> TRUE],
     parking |-> [description |-> "Secure parking facilities",
                  availability |-> "All centers",
                  cost |-> "₹800 - ₹2,000/month"],
     meeting_rooms |-> [description |-> "Fully equipped meeting spaces",
                        sizes |-> <<"4-seater", "8-seater", "12-seater",
                                    "Board room">>,
                        cost |-> "₹500 - ₹1,500/hour"],
     access_hours |-> [description |-> "Center access hours",
                       co_working |-> "8 AM - 10 PM",
                       dedicated_desk |-> "24/7",
                       private_office |-> "24/7"],
     additional |-> <<"Pantry with tea/coffee",
                      "Printing & scanning (100 pages free)",
                      "Mail handling services", "Reception support",
                      "Community events", "IT support (basic included)">>]

_load_knowledge_base ==
    [pricing |-> PricingData, contact |-> ContactData,
     locations |-> LocationData, facilities |-> FacilityData]

\* self.data of the knowledge base the chatbot builds
KbData == _load_knowledge_base

\* a str or None used as a condition
Truthy(s) == s /= NoneStr /\ s /= ""

\* the fields of an entry kept for a timeframe
Filtered(item, timeframe) ==
    IF "variations" \in DOMAIN item
    THEN [description |-> item.description, includes |-> Get(item, "includes", <<>>),
          variations |-> item.variations] @@ (timeframe :> item[timeframe])
    ELSE [description |-> item.description, includes |-> Get(item, "includes", <<>>)]
         @@ (timeframe :> item[timeframe])

get_pricing(entity, timeframe) ==
    IF entity \in DOMAIN KbData.pricing
    THEN IF Truthy(timeframe) /\ timeframe \in DOMAIN KbData.pricing[entity]
         THEN Filtered(KbData.pricing[entity], timeframe)
         ELSE KbData.pricing[entity]
    ELSE EmptyDict

get_contact(entity) ==
    IF entity \in DOMAIN KbData.contact
    THEN KbData.contact[entity]
    ELSE KbData.contact.general

get_location(center) ==
    IF Truthy(center) /\ center \in DOMAIN KbData.locations
    THEN center :> [address |-> KbData.locations[center],
                    contact |-> KbData.contact.centers[center]]
    ELSE KbData.locations

get_facility(facility) ==
    IF Truthy(facility) /\ facility \in DOMAIN KbData.facilities
    THEN KbData.facilities[facility]
    ELSE KbData.facilities

----------------------------------------------------------------------------
(* ResponseGenerator.  A confidence is written in hundredths; a text of    *)
(* several lines is the join of its lines, and a pictograph of the source  *)
(* text is written by its name between colons (:bulb:).                    *)

ChatResponse(answer, confidence, follow_up_questions, source) ==
    [raised |-> "", answer |-> answer, confidence |-> confidence,
     follow_up_questions |-> follow_up_questions, source |-> source]

\* an exception leaving the generator instead of a response
Raised(exc) ==
    [raised |-> exc, answer |-> "", confidence |-> 0,
     follow_up_questions |-> <<>>, source |-> ""]

Lines(ls) == join("\n", ls)

_format_general_pricing ==
    Lines(<< ":briefcase: **Pricing Overview:**",
             "",
             "**Co-Working Spaces:**",
             ":bullet: Hot Desk: ₹8,000 - ₹12,000/month",
             ":bullet: Dedicated Desk: ₹10,000 - ₹15,000/month",
             ":bullet: Day Pass: ₹800 - ₹1,200/day",
             "",
             "**Private Offices:**",
             ":bullet: 2-person cabin: ₹25,000 - ₹30,000/month",
             ":bullet: 4-person cabin: ₹35,000 - ₹40,000/month",
             ":bullet: Team suites (6-10p): ₹60,000 - ₹90,000/month",
             "",
             "**Additional Services:**",
             ":bullet: Parking: ₹800 - ₹2,000/month",
             ":bullet: Meeting Rooms: ₹500 - ₹1,500/hour",
             ":bullet: Virtual Office: ₹2,000 - ₹5,000/month",
             "",
             "*Note: All prices exclude GST. Exact rates depend on location and contract terms.*",
             "",
             ":telephone_receiver: For a personalized quote, contact our sales team at **080-4111-2000** or email **sales@bizzhub.com**." >>)

CoWorkingText(price, timeframe_display, includes) ==
    Lines(<< ":seat: **Co-Working Space Pricing:**",
             "",
             ":bullet: **Price:** " \o price \o timeframe_display,
             ":bullet: **Includes:** " \o join(", ", includes),
             "",
             ":bulb: *Perfect for freelancers, remote workers, and small teams.*",
             ":telephone_receiver: **Get exact quote:** Call 080-4111-2000 or visit our website." >>)

PrivateOfficeText(price, includes) ==
    Lines(<< ":door: **Private Office Pricing:**",
             "",
             ":bullet: **Price:** " \o price \o "/month",
             ":bullet: **Includes:** " \o join(", ", includes),
             "",
             ":bulb: *Ideal for growing teams needing privacy and branding.*",
             ":telephone_receiver: **Schedule a tour:** Call 080-4111-2000" >>)

ParkingPricingText(price) ==
    Lines(<< ":car: **Parking Information:**",
             "",
             ":bullet: **Monthly parking:** " \o price,
             ":bullet: **Availability:** All centers",
             ":bullet: **Security:** CCTV monitored, 24/7",
             "",
             ":round_pushpin: **Center-specific rates:**",
             "- Koramangala: ₹1,000/month",
             "- Whitefield: ₹1,500/month",
             "- Electronic City: ₹800/month",
             "",
             ":telephone_receiver: **Confirm availability:** Call your nearest center." >>)

\* the co-working text with the description where the price belongs
_format_specific_pricing_description(entity, info, timeframe) ==
    IF entity = "co-working"
    THEN CoWorkingText(Get(info, "description", "Service"),
                       IF timeframe = "monthly" THEN "/month" ELSE "/day",
                       Get(info, "includes",
                           <<"Workspace access", "WiFi", "Basic amenities">>))
    ELSE IF entity = "private_office"
    THEN PrivateOfficeText(Get(info, "monthly", "₹25,000 - ₹40,000"),
                           Get(info, "includes",
                               <<"Private locked room", "Ergonomic chairs",
                                 "Custom layout">>))
    ELSE IF entity = "parking"
    THEN ParkingPricingText(Get(info, "monthly", "₹800 - ₹2,000"))
    ELSE "**" \o Get(info, "description", "Service") \o ":** "
         \o Get(info, timeframe, "Contact for pricing")

_format_specific_pricing(entity, info, timeframe) ==
    IF entity = "co-working"
    THEN CoWorkingText(Get(info, "monthly", Get(info, "daily", "₹8,000 - ₹12,000")),
                       IF timeframe = "monthly" THEN "/month" ELSE "/day",
                       Get(info, "includes",
                           <<"Workspace access", "WiFi", "Basic amenities">>))
    ELSE IF entity = "private_office"
    THEN PrivateOfficeText(Get(info, "monthly", "₹25,000 - ₹40,000"),
                           Get(info, "includes",
                               <<"Private locked room", "Ergonomic chairs",
                                 "Custom layout">>))
    ELSE IF entity = "parking"
    THEN ParkingPricingText(Get(info, "monthly", "₹800 - ₹2,000"))
    ELSE "**" \o Get(info, "description", "Service") \o ":** "
         \o Get(info, timeframe, "Contact for pricing")

_get_pricing_follow_ups(entity) ==
    IF entity = "co-working"
    THEN <<"Do you need 24/7 access?", "How many meeting room hours do you need?",
           "Would you like to see our available centers?">>
    ELSE IF entity = "private_office"
    THEN <<"How many people in your team?", "Do you need custom branding?",
           "Would you like a virtual tour?">>
    ELSE <<"What's your team size?", "Which location are you interested in?",
           "Do you need parking facilities?">>

\* the answer to a specific pricing request, given what the lookup returned
SpecificPricing(entity, timeframe, pricing_info) ==
    IF DOMAIN pricing_info = {}
    THEN ChatResponse("I understand you're asking about pricing. Could you specify if you're interested in co-working spaces, private offices, or other services?",
                      60, _get_pricing_follow_ups(NoneStr), "knowledge_base")
    ELSE ChatResponse(_format_specific_pricing(entity, pricing_info, timeframe),
                      95, _get_pricing_follow_ups(entity), "knowledge_base")

\* intent.timeframe or 'monthly'
TimeframeOrMonthly(intent) ==
    IF Truthy(intent.timeframe) THEN intent.timeframe ELSE "monthly"

\* every pricing request answered as a specific one
_generate_pricing_response_always_specific(intent, question) ==
    SpecificPricing(intent.entity, TimeframeOrMonthly(intent),
                    get_pricing(intent.entity, TimeframeOrMonthly(intent)))

_generate_pricing_response(intent, question) ==
    IF ~intent.is_specific
    THEN ChatResponse(_format_general_pricing, 90,
                      <<"Are you looking for co-working or private office?",
                        "How many people are in your team?",
                        "Do you need daily or monthly plans?">>,
                      "knowledge_base")
    ELSE SpecificPricing(intent.entity, TimeframeOrMonthly(intent),
                         get_pricing(intent.entity, TimeframeOrMonthly(intent)))

\* a subscript d[k] for each of the keys raises KeyError when one is absent
HasKeys(d, keys) == keys \subseteq DOMAIN d

SalesText(contact, website) ==
    Lines(<< ":date: **Schedule a Site Visit:**",
             "",
             ":bullet: **Contact:** " \o contact.person \o " (Sales Manager)",
             ":bullet: **Phone:** " \o contact.phone,
             ":bullet: **Email:** " \o contact.email,
             ":bullet: **WhatsApp:** " \o contact.whatsapp,
             ":bullet: **Hours:** " \o contact.hours,
             "",
             ":round_pushpin: **Available at all centers:**",
             "- Koramangala: 080-4111-2222",
             "- Whitefield: 080-4111-3333",
             "- Electronic City: 080-4111-4444",
             "",
             ":globe_with_meridians: **Book online:** " \o website \o "/book-tour" >>)

ContactText(contact, website) ==
    Lines(<< ":telephone_receiver: **Contact BizzHub Workspaces:**",
             "",
             "**General Enquiries:**",
             ":bullet: Phone: " \o contact.phone,
             ":bullet: Email: " \o contact.email,
             ":bullet: Hours: " \o contact.hours,
             "",
             "**Website:** " \o website,
             "",
             "**Center Contacts:**",
             "- Koramangala: 080-4111-2222",
             "- Whitefield: 080-4111-3333  ",
             "- Electronic City: 080-4111-4444",
             "- Indiranagar: 080-4111-5555",
             "- MG Road: 080-4111-6666",
             "",
             "**24/7 Support:** 080-4111-3000" >>)

SalesResponse(contact) ==
    IF ~HasKeys(contact, {"person", "phone", "email", "whatsapp", "hours"})
    THEN Raised("KeyError")
    ELSE ChatResponse(SalesText(contact, get_contact("general").website), 95,
                      <<"Which center would you like to visit?",
                        "What time works for you?",
                        "How many people in your team?">>,
                      "knowledge_base")

OtherContactResponse(contact) ==
    IF ~HasKeys(contact, {"phone", "email", "hours"})
    THEN Raised("KeyError")
    ELSE ChatResponse(ContactText(contact, get_contact("general").website), 90,
                      <<"Are you looking for sales, support, or general info?",
                        "Which center are you interested in?",
                        "Can I help with anything specific?">>,
                      "knowledge_base")

_generate_contact_response(intent, question) ==
    IF intent.entity = "sales" \/ Contains(lower(question), "visit")
       \/ Contains(lower(question), "tour")
    THEN SalesResponse(get_contact("sales"))
    ELSE OtherContactResponse(
             get_contact(IF Truthy(intent.entity) THEN intent.entity ELSE "general"))

CenterText(center, website) ==
    Lines(<< ":round_pushpin: **BizzHub " \o title(center) \o " Center:**",
             "",
             "**Address:** " \o KbData.locations[center],
             "**Contact:** " \o KbData.contact.centers[center].phone,
             "**Manager:** " \o KbData.contact.centers[center].manager,
             "",
             "**Features:**",
             "- High-speed WiFi",
             "- Meeting rooms",
             "- Parking available",
             "- 24/7 access (for members)",
             "- Pantry facilities",
             "",
             ":car: **Get directions:** " \o website \o "/locations/" \o center >>)

\* the loop over locations.items() that builds the listing
RECURSIVE CenterListing(_)
CenterListing(centers) ==
    IF centers = <<>> THEN ""
    ELSE ":bullet: **" \o title(centers[1]) \o ":** " \o KbData.locations[centers[1]]
         \o "\n   :telephone_receiver: " \o KbData.contact.centers[centers[1]].phone
         \o " (Manager: " \o KbData.contact.centers[centers[1]].manager \o ")\n\n"
         \o CenterListing(Tail(centers))

\* the single-center text built from the general contact entry
_generate_location_response_general_phone(intent, question) ==
    IF Truthy(intent.entity)
    THEN ChatResponse(Lines(<< ":round_pushpin: **BizzHub " \o title(intent.entity) \o " Center:**",
                               "**Contact:** " \o get_contact(intent.entity).phone >>),
                      95,
                      <<"Would you like to book a tour?",
                        "Do you need parking information?",
                        "What are your working hours?">>,
                      "knowledge_base")
    ELSE ChatResponse(":round_pushpin: **Our Bangalore Centers:**\n\n"
                      \o CenterListing(LocationOrder)
                      \o ":globe_with_meridians: **View all centers:** "
                      \o get_contact("general").website \o "/locations",
                      90,
                      <<"Which center are you closest to?",
                        "Would you like directions to a specific center?",
                        "Do you need center-specific pricing?">>,
                      "knowledge_base")

_generate_location_response(intent, question) ==
    IF Truthy(intent.entity)
    THEN IF intent.entity \notin DOMAIN KbData.locations
            \/ intent.entity \notin DOMAIN KbData.contact.centers
         THEN Raised("KeyError")
         ELSE ChatResponse(CenterText(intent.entity, get_contact("general").website),
                           95,
                           <<"Would you like to book a tour?",
                             "Do you need parking information?",
                             "What are your working hours?">>,
                           "knowledge_base")
    ELSE ChatResponse(":round_pushpin: **Our Bangalore Centers:**\n\n"
                      \o CenterListing(LocationOrder)
                      \o ":globe_with_meridians: **View all centers:** "
                      \o get_contact("general").website \o "/locations",
                      90,
                      <<"Which center are you closest to?",
                        "Would you like directions to a specific center?",
                        "Do you need center-specific pricing?">>,
                      "knowledge_base")

ParkingFacilityText(pricing) ==
    Lines(<< ":car: **Parking Facilities:**",
             "",
             "**Availability:** All centers",
             "**Cost:** " \o Get(pricing, "monthly", "₹800 - ₹2,000") \o "/month",
             "",
             "**Center-Specific Rates:**",
             Get(pricing, "description", "Secure parking available"),
             "",
             "**Features:**",
             ":bullet: CCTV monitored 24/7",
             ":bullet: Dedicated slots for members",
             ":bullet: Visitor parking available",
             ":bullet: EV charging (Whitefield & Electronic City)",
             "",
             ":telephone_receiver: **Reserve parking:** Contact your nearest center" >>)

InternetText(facility) ==
    Lines(<< ":globe_with_meridians: **Internet Services:**",
             "",
             "**Speed:** " \o facility.speed \o " dedicated fiber",
             "**Availability:** Included in all plans",
             "**Reliability:** 99.9% uptime guarantee",
             "",
             "**Features:**",
             ":bullet: Enterprise-grade security",
             ":bullet: Separate guest network",
             ":bullet: IT support available",
             ":bullet: Backup connection",
             "",
             ":bulb: *Perfect for video calls, large uploads, and remote teams.*" >>)

FacilitiesText ==
    Lines(<< ":hammer_and_wrench: **Our Facilities & Amenities:**",
             "",
             "**Core Services:**",
             ":bullet: High-speed internet (100 Mbps, included)",
             ":bullet: Meeting rooms (book by hour/day)",
             ":bullet: 24/7 access for members",
             ":bullet: Secure parking (additional cost)",
             "",
             "**Additional Amenities:**",
             ":bullet: Pantry with tea/coffee",
             ":bullet: Printing & scanning",
             ":bullet: Mail handling",
             ":bullet: Reception support",
             ":bullet: Community events",
             ":bullet: Basic IT support",
             "",
             "**Premium Services:**",
             ":bullet: Dedicated internet lines",
             ":bullet: Premium IT support",
             ":bullet: Custom branding",
             ":bullet: Event space rental",
             "",
             ":telephone_receiver: **Learn more:** 080-4111-1000" >>)

_generate_facility_response(intent, question) ==
    IF intent.entity = "parking"
    THEN ChatResponse(ParkingFacilityText(get_pricing("parking", NoneStr)), 95,
                      <<"Which center are you at?",
                        "Do you need monthly or visitor parking?",
                        "Do you have an electric vehicle?">>,
                      "knowledge_base")
    ELSE IF intent.entity = "internet"
    THEN IF ~HasKeys(get_facility("internet"), {"speed"})
         THEN Raised("KeyError")
         ELSE ChatResponse(InternetText(get_facility("internet")), 95,
                           <<"Do you need dedicated bandwidth?",
                             "How many devices will connect?",
                             "Do you require VPN setup?">>,
                           "knowledge_base")
    ELSE ChatResponse(FacilitiesText, 90,
                      <<"Which facility are you most interested in?",
                        "Do you need specific equipment?",
                        "What's your team size?">>,
                      "knowledge_base")

_generate_general_response(question) ==
    ChatResponse(Lines(<< ":office: **Welcome to BizzHub Workspaces!**",
                          "",
                          "I can help you with:",
                          ":bullet: **Pricing & Plans** - Co-working, private offices, day passes",
                          ":bullet: **Locations** - Our 5 centers across Bangalore  ",
                          ":bullet: **Facilities** - Internet, parking, meeting rooms",
                          ":bullet: **Contact Information** - Phone, email, site visits",
                          "",
                          "What would you like to know about?" >>),
                 70,
                 <<"What type of workspace do you need?",
                   "How many people are in your team?",
                   "Which area of Bangalore are you in?">>,
                 "general_knowledge")

\* ResponseGenerator.generate_response
Respond(intent, original_question) ==
    IF intent.type = PRICING
    THEN _generate_pricing_response(intent, original_question)
    ELSE IF intent.type = CONTACT
    THEN _generate_contact_response(intent, original_question)
    ELSE IF intent.type = LOCATION
    THEN _generate_location_response(intent, original_question)
    ELSE IF intent.type = FACILITY
    THEN _generate_facility_response(intent, original_question)
    ELSE _generate_general_response(original_question)

\* BizzHubChatbot._format_output
_format_output(response) == response.answer \o "\n\n"

----------------------------------------------------------------------------
(* FAQRAGSystem.  A similarity is written in hundredths.                   *)

\* if similarities[idx] > 0.1
DisplayThreshold == 10
\* similar_faqs[0][1] > 0.3
AcceptThreshold == 30
\* _find_similar_faqs(query, top_k=2)
TopK == 2

FAQ(question, answer, category) ==
    [question |-> question, answer |-> answer, category |-> category]

_load_default_faqs ==
    << FAQ("How do I create an invoice?",
           "You can create an invoice by providing product details like quantity and price. For example: '2x T-shirts @ 500' creates an invoice with 2 T-shirts at Rs. 500 each.",
           "billing"),
       FAQ("What information do I need for an invoice?",
           "You need at least one product item, customer name, and customer email. Additional details like GST number, shipping fee, and discount codes can be added.",
           "billing"),
       FAQ("How do I add items to my invoice?",
           "You can add items by mentioning quantity, name, and price. Examples: '3 shirts @ 499', '1 laptop 12999', '2 books at 299 each'.",
           "billing"),
       FAQ("Can I update my invoice after creation?",
           "Yes, you can continue adding items or updating details in the same conversation. The system remembers your invoice draft until it's finalized.",
           "billing"),
       FAQ("How do I download my invoice as PDF?",
           "Once your invoice is generated, you'll see a download link in the chat interface. The PDF is automatically created when your invoice is finalized.",
           "pdf"),
       FAQ("What is GST and how is it calculated?",
           "GST (Goods and Services Tax) is calculated as a percentage of the subtotal. By default, it's set to 18%, but you can specify a different rate.",
           "tax"),
       FAQ("Can I apply discounts to my invoice?",
           "Yes, you can apply discounts by mentioning a discount code or amount. Examples: 'Apply 10% discount', 'Use code SAVE10', 'Discount of 500'.",
           "billing"),
       FAQ("How do I include shipping charges?",
           "Shipping charges are automatically added to your invoice. You can specify shipping fees like: 'Shipping: 100' or 'Delivery charge: 50'.",
           "billing"),
       FAQ("What payment methods do you accept?",
           "This system generates invoices for your records. Actual payment methods depend on the merchant you're purchasing from.",
           "payment"),
       FAQ("How do I cancel my invoice?",
           "Invoices are generated only when complete. If you want to start fresh, just begin a new conversation or say 'reset'.",
           "billing"),
       FAQ("Can I send the invoice to someone else?",
           "Yes, once generated, you can download the PDF and share it. The system also stores invoices by ID for future reference.",
           "pdf"),
       FAQ("How long are my invoices stored?",
           "Invoices are stored in our secure database. You can retrieve them using the invoice ID provided after generation.",
           "storage") >>

\* the characters of a token of the vectorizer (lower-cased text)
WordChars == CharsOf(LowerCase \o "0123456789_")
IsWordChar(c) == c \in WordChars

\* the English stop words that occur in the texts of the model
StopWords ==
    {"how", "do", "an", "what", "for", "to", "my", "can", "after", "as", "is",
     "and", "it", "you", "the", "else", "someone", "are", "me", "of", "in"}

\* a finished run of word characters is a term when it has two characters
\* or more and is no stop word
WithWord(terms, word) ==
    IF Len(word) >= 2 /\ word \notin StopWords THEN terms \cup {word} ELSE terms

\* the terms of a lower-cased text, read left to right
RECURSIVE Scan(_, _, _)
Scan(text, word, terms) ==
    IF text = "" THEN WithWord(terms, word)
    ELSE IF IsWordChar(CharAt(text, 1))
    THEN Scan(SubSeq(text, 2, Len(text)), word \o CharAt(text, 1), terms)
    ELSE Scan(SubSeq(text, 2, Len(text)), "", WithWord(terms, word))

\* the unigrams the vectorizer takes from a text; two texts share a bigram
\* only if they share its unigrams
Terms(text) == Scan(lower(text), "", {})

\* the vocabulary fitted on the questions
Vocabulary(fs) == UNION {Terms(fs[i].question) : i \in 1..Len(fs)}

\* self.faq_vectors: None, or a matrix with one row per question and one
\* column per term of the vocabulary it was computed with; a row is written
\* as the set of its columns that are not zero
NoMatrix == [none |-> TRUE, rows |-> <<>>, columns |-> {}]
Matrix(rows, columns) == [none |-> FALSE, rows |-> rows, columns |-> columns]

\* the vectorizer: not fitted, or fitted with a vocabulary
Unfitted == [fitted |-> FALSE, vocabulary_ |-> {}]
Fitted(vocabulary) == [fitted |-> TRUE, vocabulary_ |-> vocabulary]

\* vectorizer.transform of the questions with a fitted vocabulary
transform(vocabulary, fs) ==
    [i \in 1..Len(fs) |-> Terms(fs[i].question) \cap vocabulary]

\* the index computed with the vocabulary of all entries but the last
_build_index_old_vocabulary(fs) ==
    IF fs = <<>> THEN NoMatrix
    ELSE IF Vocabulary(fs) = {} THEN NoMatrix
    ELSE Matrix(transform(Vocabulary(SubSeq(fs, 1, Len(fs) - 1)), fs),
                Vocabulary(SubSeq(fs, 1, Len(fs) - 1)))

\* self.faq_vectors after _build_index: None, or the matrix fit_transform
\* returns (fit_transform raises ValueError on an empty vocabulary)
_build_index(fs) ==
    IF fs = <<>> THEN NoMatrix
    ELSE IF Vocabulary(fs) = {} THEN NoMatrix
    ELSE Matrix(transform(Vocabulary(fs), fs), Vocabulary(fs))

\* self.vectorizer after _build_index: fit_transform fits it on the
\* questions, unless there is none or it raises before
FitVectorizer(fs, fitted) ==
    IF fs = <<>> THEN fitted
    ELSE IF Vocabulary(fs) = {} THEN fitted
    ELSE Fitted(Vocabulary(fs))

\* vectorizer.transform([query]): the terms of the query the fitted
\* vocabulary has
QueryVector(query, fitted) == Terms(query) \cap fitted.vocabulary_

\* a similarity the query can have with a question: zero exactly when they
\* share no term of the vocabulary
Scores == {5, 10, 11, 30, 31, 100}
Sharing(qv, vectors) ==
    {i \in 1..Len(vectors.rows) : qv \cap vectors.rows[i] /= {}}
\* the similarity of a text with itself is 1.0, and it is below 1.0 for
\* two texts whose terms differ
ScoresFor(query, qv, question, row) ==
    IF query = question THEN {100}
    ELSE IF qv = row THEN Scores
    ELSE Scores \ {100}
\* cosine_similarity(query_vector, self.faq_vectors).flatten()
SimilaritiesFor(query, qv, fs, vectors, sharing) ==
    {[i \in 1..Len(vectors.rows) |-> IF i \in sharing THEN c[i] ELSE 0] :
        c \in {d \in [sharing -> Scores] :
                  \A i \in sharing :
                      d[i] \in ScoresFor(query, qv, fs[i].question,
                                         vectors.rows[i])}}
SimilaritiesOf(query, fs, vectors, fitted) ==
    SimilaritiesFor(query, QueryVector(query, fitted), fs, vectors,
                    Sharing(QueryVector(query, fitted), vectors))

\* methods of the scipy sparse matrix fit_transform returns; the class has
\* no method any
SparseMatrixMethods ==
    {"max", "min", "sum", "mean", "nonzero", "count_nonzero", "getnnz",
     "toarray", "todense", "transpose", "multiply", "dot"}

\* query.strip() is empty
IsBlank(text) == \A i \in 1..Len(text) : CharAt(text, i) \in {" ", "\t", "\n"}

\* similarities.argsort(): the indices by ascending similarity (equal
\* similarities by ascending index)
Before(s, i, j) == s[i] < s[j] \/ (s[i] = s[j] /\ i < j)
argsort(s) ==
    [k \in 1..Len(s) |->
        CHOOSE i \in 1..Len(s) :
            Cardinality({j \in 1..Len(s) : Before(s, j, i)}) = k - 1]

\* a[-top_k:][::-1]
LastReversed(a, top_k) ==
    [k \in 1..(IF top_k < Len(a) THEN top_k ELSE Len(a)) |-> a[Len(a) + 1 - k]]

Scored(faq, score) == [faq |-> faq, score |-> score]

\* the loop that keeps the candidates above the lower threshold
RECURSIVE AboveDisplay(_, _, _)
AboveDisplay(fs, s, indices) ==
    IF indices = <<>> THEN <<>>
    ELSE (IF s[indices[1]] > DisplayThreshold
          THEN <<Scored(fs[indices[1]], s[indices[1]])>> ELSE <<>>)
         \o AboveDisplay(fs, s, Tail(indices))

Found(results) == [raised |-> "", results |-> results]
FindRaised(exc) == [raised |-> exc, results |-> <<>>]

\* s is what cosine_similarity returns for the query
_find_similar_faqs(fs, vectors, query, top_k, s) ==
    IF vectors.none \/ "any" \notin SparseMatrixMethods
    THEN FindRaised("AttributeError")
    ELSE IF IsBlank(query) THEN Found(<<>>)
    ELSE Found(AboveDisplay(fs, s, LastReversed(argsort(s), top_k)))

Answer(raised, answer, matched) ==
    [raised |-> raised, answer |-> answer, matched |-> matched]

Accepted(found) ==
    IF found.raised /= "" THEN Answer(found.raised, NoneStr, FALSE)
    ELSE IF found.results /= <<>> /\ found.results[1].score > AcceptThreshold
    THEN Answer("", found.results[1].faq.answer, TRUE)
    ELSE Answer("", NoneStr, FALSE)

get_answer(fs, vectors, query, s) ==
    Accepted(_find_similar_faqs(fs, vectors, query, TopK, s))

\* the list after faqs.append(faq); the index is rebuilt from it
add_faq(fs, question, answer, category) ==
    Append(fs, FAQ(question, answer, category))

\* the calls of self.model.generate_content made
ModelCall == <<"generate_content">>

\* get_contextual_answer once get_answer has ended as a; llm is what the
\* model does with the rephrasing prompt.  `calls` are the model calls made
Contextual(a, llm) ==
    IF a.raised /= ""
    THEN [raised |-> a.raised, value |-> NoneStr, calls |-> <<>>]
    ELSE IF a.matched
    THEN [raised |-> "",
          value |-> IF llm.kind = "raise" THEN a.answer ELSE llm.text,
          calls |-> ModelCall]
    ELSE [raised |-> "", value |-> NoneStr, calls |-> <<>>]

get_contextual_answer(fs, vectors, query, s, llm) ==
    Contextual(get_answer(fs, vectors, query, s), llm)

----------------------------------------------------------------------------
(* State of the chatbot *)

NoIntent == UserIntent("", FALSE, NoneStr, NoneStr)
NoResponse == ChatResponse("", 0, <<>>, "")
NoAnswer == Answer("", NoneStr, FALSE)

\* the record of a chatbot, knowledge-base or FAQ operation: what it was
\* given (text and, for get_pricing, timeframe; the similarities computed
\* for a query), the components it asked in order, and what it produced
Reply(op, text, timeframe, intent, response, stages, out, similarities, found) ==
    [op |-> op, text |-> text, timeframe |-> timeframe, intent |-> intent,
     response |-> response, stages |-> stages, out |-> out,
     similarities |-> similarities, found |-> found]

NoReply == Reply("init", "", NoneStr, NoIntent, NoResponse, <<>>, EmptyDict,
                 <<>>, NoAnswer)

\* no thread is inside add_faq or get_answer
NoThreads == [writer |-> "idle", reader |-> "idle"]

\* FAQRAGSystem.__init__
InitFaq ==
    /\ faqs = _load_default_faqs
    /\ faq_vectors = _build_index(_load_default_faqs)
    /\ vectorizer = FitVectorizer(_load_default_faqs, Unfitted)
    /\ threads = NoThreads

\* BizzHubChatbot.__init__ and FAQRAGSystem.__init__
InitChatbot ==
    /\ conversation_history = <<>>
    /\ InitFaq
    /\ replied = NoReply

----------------------------------------------------------------------------
(* State *)

NoHealth == [p \in {} |-> FALSE]
NoPending == [has |-> FALSE, name |-> "", arguments |-> EmptyDict]
Pending(name, arguments) == [has |-> TRUE, name |-> name, arguments |-> arguments]

\* the record of an operation
Op(op, prompt, use_tools, tools, env, net, attempts, run, ret, health) ==
    [op |-> op, prompt |-> prompt, use_tools |-> use_tools, tools |-> tools,
     env |-> env, net |-> net, attempts |-> attempts,
     calls |-> run.calls, execs |-> run.execs, evals |-> run.evals,
     result |-> run.result,
     ret |-> ret, health |-> health]

NoRun == Run(NoneResult, <<>>, <<>>, <<>>, <<>>)
NoOp == Op("init", <<>>, FALSE, NoTools, NoEnv, NetError, <<>>, NoRun,
           NoneVal, NoHealth)

\* LLMManager.__init__ and CurrencyConverter.__init__
InitManager ==
    /\ \E environ \in SUBSET {"GOOGLE_API_KEY", "OPENAI_API_KEY"} :
          /\ providers = _setup_providers(environ).providers
          /\ active_provider = _setup_providers(environ).active_provider
    /\ tool_registry = _register_default_tools(<<>>)
    /\ cache = EmptyDict
    /\ last_cache_update = EmptyDict
    /\ now = 0

Init ==
    /\ InitManager
    /\ InitChatbot
    /\ pending = NoPending
    /\ last = NoOp

----------------------------------------------------------------------------
(* Operations of the manager *)

\* the operation op ends as run: it is recorded and the converter keeps
\* the cache the run left
Returns(op, prompt, use_tools, tools, env, net, attempts, run, ret) ==
    /\ last' = Op(op, prompt, use_tools, tools, env, net, attempts, run, ret,
                  NoHealth)
    /\ cache' = run.cache
    /\ last_cache_update' = run.last_cache_update
    /\ UNCHANGED <<providers, active_provider, tool_registry, now>>
    /\ UNCHANGED chatVars

GenerateReturns(prompt, use_tools, env, net, g) ==
    Returns("generate_response", prompt, use_tools, GenerateTools(use_tools),
            env, net, g.attempts, g.run, NoneVal)

GenerateResponse ==
    /\ \E prompt \in Prompts, use_tools \in BOOLEAN, env \in GenEnvs,
          net \in NetReplies \ {NetMalformed} :
           GenerateReturns(prompt, use_tools, env, net,
               generate_response(prompt, use_tools, env,
                                 cache, last_cache_update, now, net))
    /\ UNCHANGED pending

HealthCheck ==
    \E reachable \in SUBSET {"gemini", "openai"} :
        /\ last' = Op("health_check", <<>>, FALSE, NoTools, NoEnv, NetError,
                      <<>>, NoRun, NoneVal, health_check(reachable))
        /\ UNCHANGED <<providers, active_provider, tool_registry, cache,
                       last_cache_update, now, pending>>
        /\ UNCHANGED chatVars

GetAvailableTools ==
    /\ last' = Op("get_available_tools", <<>>, FALSE,
                  ToolList(get_available_tools(tool_registry)), NoEnv, NetError,
                  <<>>, NoRun, NoneVal, NoHealth)
    /\ UNCHANGED <<providers, active_provider, tool_registry, cache,
                   last_cache_update, now, pending>>
    /\ UNCHANGED chatVars

Next == GenerateResponse \/ HealthCheck \/ GetAvailableTools

Spec == Init /\ [][Next]_vars

----------------------------------------------------------------------------
(* A provider call made on its own *)

CallGemini ==
    /\ \E prompt \in CallPrompts, tools \in CallTools, r1 \in GeminiFirst,
          r2 \in GeminiFollowup, net \in NetReplies :
           Returns("_call_gemini", prompt, FALSE, tools,
                   Env(<<r1, r2>>, <<ReplyRaise, ReplyRaise>>), net, <<>>,
                   _call_gemini(prompt, tools, <<r1, r2>>,
                                cache, last_cache_update, now, net),
                   NoneVal)
    /\ UNCHANGED pending

CallOpenAI ==
    /\ \E prompt \in CallPrompts, tools \in CallTools, r1 \in OpenAIFirst,
          r2 \in OpenAIFollowup, net \in NetReplies :
           Returns("_call_openai", prompt, FALSE, tools,
                   Env(<<ReplyRaise, ReplyRaise>>, <<r1, r2>>), net, <<>>,
                   _call_openai(prompt, tools, <<r1, r2>>,
                                cache, last_cache_update, now, net),
                   NoneVal)
    /\ UNCHANGED pending

NextCall == CallGemini \/ CallOpenAI

SpecCall == Init /\ [][NextCall]_vars

----------------------------------------------------------------------------
(* A tool call executed on its own *)

\* the alphabet the expressions are enumerated over, and longer expressions
\* given by name
ExprAlphabet == {"2", "5", "+", "-", " ", "i"}
NamedExprs ==
    { <<"2", "+", "2", "*", "5">>,
      <<"(", "2", "+", "2", ")", "*", "5">>,
      <<"2", "*", "*", "5">>,
      <<"i", "m", "p", "o", "r", "t", " ", "o", "s">>,
      <<"0", "5">>, <<"0", "0">>, <<"(", "2">> }
Expressions ==
    NamedExprs \cup UNION {[1..k -> ExprAlphabet] : k \in 0..MaxExprLen}

CurrencyCodes == {"USD", "usd", "INR", "XXX"}

ToolCalls ==
    {Pending("calculate", [expression |-> TextVal(e)]) : e \in Expressions}
    \cup {Pending("calculate", EmptyDict)}
    \cup {Pending("currency_converter",
                  [amount |-> IntVal(a), from_currency |-> StrVal(f),
                   to_currency |-> StrVal(t)]) :
             a \in {0, 100}, f \in CurrencyCodes, t \in CurrencyCodes}
    \cup {Pending("currency_converter", EmptyDict)}
    \cup {Pending("get_current_time", EmptyDict)}
    \cup {Pending(n, EmptyDict) : n \in {"weather", ""}}

InitTool ==
    /\ InitManager
    /\ InitChatbot
    /\ pending \in ToolCalls
    /\ last = NoOp

\* execute() ends as o
ExecuteReturns(net, o) ==
    Returns("execute", <<>>, FALSE, NoTools, NoEnv, net, <<>>,
            WithEvals(Run(NoneResult, <<>>,
                          <<ToolRecord(pending.name, pending.arguments, o.ret)>>,
                          o.cache, o.last_cache_update),
                      ToolEvals(pending.name, pending.arguments)),
            o.ret)

ExecuteTool ==
    /\ pending.has
    /\ \E net \in NetReplies :
           ExecuteReturns(net, execute(pending.name, pending.arguments,
                                       cache, last_cache_update, now, net))
    /\ pending' = NoPending

NextTool == ExecuteTool

SpecTool == InitTool /\ [][NextTool]_vars

----------------------------------------------------------------------------
(* CurrencyConverter.get_exchange_rate as the clock advances              *)
(* (specification SpecRate)                                                *)

\* the latest time of the clock, in minutes
MaxNow == 45

\* the minutes that pass between two calls
Ticks == {15, 30}

\* the pairs a rate is asked for: a pair, its reverse, and a pair with a
\* code the service does not know
RatePairs == {<<"USD", "INR">>, <<"INR", "USD">>, <<"XXX", "INR">>}

\* what the rate service answers: the rates move between two calls
RateReplies ==
    NetReplies \cup {NetRates([USD |-> 100, EUR |-> 90, INR |-> 8300])}

\* the request get_exchange_rate sent to the rate service, if it sent one
RateCalls(from_currency, to_currency, o) ==
    IF o.fetched
    THEN <<ApiCall("exchangerate-api", "latest", <<from_currency, to_currency>>,
                   <<>>, NoToolRecord)>>
    ELSE <<>>

RateReturns(from_currency, to_currency, net, o) ==
    Returns("get_exchange_rate", <<from_currency, to_currency>>, FALSE, NoTools,
            NoEnv, net, <<>>,
            Run(NoneResult, RateCalls(from_currency, to_currency, o), <<>>,
                o.cache, o.last_cache_update),
            o.ret)

GetExchangeRate ==
    /\ \E pair \in RatePairs, net \in RateReplies :
           RateReturns(pair[1], pair[2], net,
                       get_exchange_rate(pair[1], pair[2],
                                         cache, last_cache_update, now, net))
    /\ UNCHANGED pending

\* datetime.now() moves on
Tick ==
    /\ \E d \in Ticks : now + d <= MaxNow /\ now' = now + d
    /\ UNCHANGED <<providers, active_provider, tool_registry, cache,
                   last_cache_update, pending, last>>
    /\ UNCHANGED chatVars

NextRate == GetExchangeRate \/ Tick

SpecRate == Init /\ [][NextRate]_vars

----------------------------------------------------------------------------
(* BizzHubChatbot.process_message (specification SpecChat) *)

\* most turns of a conversation
MaxTurns == 2

\* the questions of run_chatbot_demo
DemoQuestions ==
    {"What's the per seat cost?",
     "Do you have parking at Whitefield?",
     "Whom can I contact for a site visit?",
     "Where is your Electronic City center?",
     "What facilities do you offer?",
     "How much for a private office for 4 people?",
     "What's your phone number?",
     "Do you have meeting rooms?"}

\* the questions of quick_test
QuickTestQuestions ==
    {"What's the per seat cost?",
     "Do you have parking at Whitefield?",
     "Whom can I contact for enquiry or site visit?",
     "How much for a private cabin for 2 people?",
     "What's your email address?",
     "Where is your MG Road center?"}

ScenarioQuestions == DemoQuestions \cup QuickTestQuestions

\* the messages sent in a conversation: those of quick_test and one that no
\* category matches
ChatMessages == QuickTestQuestions \cup {"What facilities do you offer?"}

\* conversation_history.append({'user': ..., 'timestamp': ...})
AppendTurn(history, user_message, timestamp) ==
    Append(history, [user |-> user_message, timestamp |-> timestamp])

\* the answer stored in the first turn instead of the last
StoreResponseFirst(history, answer) ==
    [history EXCEPT ![1] = ("response" :> answer) @@ @]

\* conversation_history[-1]['response'] = response.answer
StoreResponse(history, answer) ==
    [history EXCEPT ![Len(history)] = ("response" :> answer) @@ @]

\* the components process_message asks, in order
Stages == <<"intent_parser", "response_generator">>

\* process_message from the appended turn on: the history it leaves, and
\* what it returns unless the generator raised
Processed(history, user_message, intent, response) ==
    [history |-> IF response.raised /= "" THEN history
                 ELSE StoreResponse(history, response.answer),
     reply |-> Reply("process_message", user_message, NoneStr, intent, response,
                     Stages,
                     IF response.raised /= "" THEN Raise(response.raised)
                     ELSE StrVal(_format_output(response)),
                     <<>>, NoAnswer)]

process_message(history, user_message, timestamp) ==
    Processed(AppendTurn(history, user_message, timestamp), user_message,
              parse(user_message), Respond(parse(user_message), user_message))

Chatted(p) ==
    /\ conversation_history' = p.history
    /\ replied' = p.reply

ProcessMessage ==
    /\ Len(conversation_history) < MaxTurns
    /\ \E user_message \in ChatMessages, t \in {now, now + 1} :
          /\ now' = t
          /\ Chatted(process_message(conversation_history, user_message,
                                     TimeVal(t)))
    /\ UNCHANGED faqVars
    /\ UNCHANGED managerVars

NextChat == ProcessMessage

SpecChat == Init /\ [][NextChat]_vars

----------------------------------------------------------------------------
(* IntentParser.parse and ResponseGenerator.generate_response on a         *)
(* question (specification SpecParse)                                      *)

\* most words of a question put together from Words
MaxWords == 2

Words ==
    {"Price", "cost", "corporate", "contact", "visit", "support", "where",
     "center", "parking", "wifi", "meeting room", "per seat", "private office",
     "Whitefield", "ITPL", "monthly", "day pass", "hello"}

RECURSIVE PhrasesOf(_)
PhrasesOf(n) ==
    IF n = 1 THEN Words
    ELSE {p \o " " \o w : p \in PhrasesOf(n - 1), w \in Words}

\* a question about each center, by each phrase of its pattern
CenterQuestions ==
    {"Where is your " \o location_patterns[k].patterns[j] \o " center?" :
        k \in 1..Len(location_patterns), j \in 1..2}

\* questions that name a timeframe, or two entities
LongerQuestions ==
    {"hot desk daily price", "coworking hourly rate", "monthly cost of a shared desk",
     "price of parking and per seat", "meeting room rate per hour",
     "What does a virtual office cost per month?", "is there a fee for the wifi",
     "24/7 access and other services", "Which branch is near ITPL or Koramangala?",
     "Whom to contact about the parking price at your Whitefield center?"}

Questions ==
    ScenarioQuestions \cup CenterQuestions \cup LongerQuestions \cup {""}
    \cup UNION {PhrasesOf(n) : n \in 1..MaxWords}

Asked(question) ==
    Reply("asked", question, NoneStr, NoIntent, NoResponse, <<>>, EmptyDict,
          <<>>, NoAnswer)

InitParse ==
    /\ InitManager
    /\ conversation_history = <<>>
    /\ InitFaq
    /\ pending = NoPending
    /\ last = NoOp
    /\ replied \in {Asked(q) : q \in Questions}

Resolved(question, intent) ==
    Reply("generate_response", question, NoneStr, intent,
          Respond(intent, question), <<>>, EmptyDict, <<>>, NoAnswer)

\* intent = parse(question); response = generate_response(intent, question)
ParseAndRespond ==
    /\ replied.op = "asked"
    /\ replied' = Resolved(replied.text, parse(replied.text))
    /\ UNCHANGED <<conversation_history, faqVars, now>>
    /\ UNCHANGED managerVars

NextParse == ParseAndRespond

SpecParse == InitParse /\ [][NextParse]_vars

----------------------------------------------------------------------------
(* The accessors of the knowledge base (specification SpecKb) *)

\* the keys of the tables, the entities of the parser, and keys of no table
Keys ==
    DOMAIN KbData.pricing \cup DOMAIN KbData.contact \cup DOMAIN KbData.locations
    \cup DOMAIN KbData.facilities
    \cup {pricing_patterns[k].entity : k \in 1..Len(pricing_patterns)}
    \cup {contact_patterns[k].entity : k \in 1..Len(contact_patterns)}
    \cup {"access_hours", "internet", "unknown", "", NoneStr}

Timeframes == {NoneStr, "monthly", "daily", "hourly", "yearly"}

Looked(op, key, timeframe, out) ==
    /\ replied' = Reply(op, key, timeframe, NoIntent, NoResponse, <<>>, out, <<>>,
                      NoAnswer)
    /\ UNCHANGED <<conversation_history, faqVars, now>>
    /\ UNCHANGED managerVars

GetPricing ==
    \E entity \in Keys, timeframe \in Timeframes :
        Looked("get_pricing", entity, timeframe, get_pricing(entity, timeframe))

GetContact ==
    \E entity \in Keys : Looked("get_contact", entity, NoneStr, get_contact(entity))

GetLocation ==
    \E center \in Keys : Looked("get_location", center, NoneStr, get_location(center))

GetFacility ==
    \E facility \in Keys :
        Looked("get_facility", facility, NoneStr, get_facility(facility))

NextKb == GetPricing \/ GetContact \/ GetLocation \/ GetFacility

SpecKb == Init /\ [][NextKb]_vars

----------------------------------------------------------------------------
(* FAQRAGSystem.add_faq and get_answer (specification SpecFaq) *)

\* most entries of the FAQ list: the default ones and one added
MaxFaqs == 13

NewFaqs ==
    { FAQ("What is the refund policy?", "Refunds are handled by the merchant.",
          "payment"),
      FAQ("The", "A question of stop words only.", "general") }

\* the queries: blank ones, some that share terms with the default
\* questions or with none, and the questions added
Queries ==
    {"", "   ", "weather tomorrow", "GST", "Payment methods",
     "discounts and shipping", "refund"}
    \cup {f.question : f \in NewFaqs}

\* what the model does with the rephrasing prompt
Rephrasings == {ReplyRaise, ReplyText("rephrased answer")}

\* add_faq run to its end: the entry is appended and the index rebuilt
Added(fs, question) ==
    /\ faqs' = fs
    /\ faq_vectors' = _build_index(fs)
    /\ vectorizer' = FitVectorizer(fs, vectorizer)
    /\ replied' = Reply("add_faq", question, NoneStr, NoIntent, NoResponse,
                        <<>>, EmptyDict, <<>>, NoAnswer)

AddFaq ==
    /\ Len(faqs) < MaxFaqs
    /\ \E f \in NewFaqs :
          Added(add_faq(faqs, f.question, f.answer, f.category), f.question)
    /\ UNCHANGED <<conversation_history, threads, now>>
    /\ UNCHANGED managerVars

GetAnswer ==
    /\ \E query \in Queries :
         \E s \in SimilaritiesOf(query, faqs, faq_vectors, vectorizer) :
            replied' = Reply("get_answer", query, NoneStr, NoIntent, NoResponse,
                           <<>>, EmptyDict, s,
                           get_answer(faqs, faq_vectors, query, s))
    /\ UNCHANGED <<conversation_history, faqVars, now>>
    /\ UNCHANGED managerVars

\* the record of get_contextual_answer: the model's behaviour, the model
\* calls made, and what is returned or raised
ContextualReply(query, s, llm, r) ==
    Reply("get_contextual_answer", query, NoneStr, NoIntent, NoResponse,
          r.calls, llm, s, Answer(r.raised, r.value, r.value /= NoneStr))

GetContextualAnswer ==
    /\ \E query \in Queries, llm \in Rephrasings :
         \E s \in SimilaritiesOf(query, faqs, faq_vectors, vectorizer) :
            replied' = ContextualReply(query, s, llm,
                           get_contextual_answer(faqs, faq_vectors, query, s, llm))
    /\ UNCHANGED <<conversation_history, faqVars, now>>
    /\ UNCHANGED managerVars

NextFaq == AddFaq \/ GetAnswer \/ GetContextualAnswer

SpecFaq == Init /\ [][NextFaq]_vars

----------------------------------------------------------------------------
(* add_faq in one thread and get_answer in another, on the shared          *)
(* rag_system (specification SpecFaqThreads).  No lock is taken: a thread   *)
(* may be suspended between any two statements.                            *)

\* add_faq up to self.faqs.append(faq)
AddFaqAppend ==
    /\ threads.writer = "idle"
    /\ Len(faqs) < MaxFaqs
    /\ \E f \in NewFaqs :
          faqs' = add_faq(faqs, f.question, f.answer, f.category)
    /\ threads' = [threads EXCEPT !.writer = "fit_transform"]
    /\ UNCHANGED <<conversation_history, faq_vectors, vectorizer, replied, now>>
    /\ UNCHANGED managerVars

\* _build_index: fit_transform fits the vectorizer on the questions ...
BuildIndexFit ==
    /\ threads.writer = "fit_transform"
    /\ vectorizer' = FitVectorizer(faqs, vectorizer)
    /\ threads' = [threads EXCEPT !.writer = "assign"]
    /\ UNCHANGED <<conversation_history, faqs, faq_vectors, replied, now>>
    /\ UNCHANGED managerVars

\* ... and the matrix it returns is assigned to self.faq_vectors
BuildIndexAssign ==
    /\ threads.writer = "assign"
    /\ faq_vectors' = _build_index(faqs)
    /\ threads' = [threads EXCEPT !.writer = "idle"]
    /\ UNCHANGED <<conversation_history, faqs, vectorizer, replied, now>>
    /\ UNCHANGED managerVars

\* get_answer(query) is called: the thread stands before line 141
QueryBegin ==
    /\ threads.reader = "idle"
    /\ \E query \in Queries :
          replied' = Reply("get_answer called", query, NoneStr, NoIntent,
                         NoResponse, <<>>, EmptyDict, <<>>, NoAnswer)
    /\ threads' = [threads EXCEPT !.reader = "141"]
    /\ UNCHANGED <<conversation_history, faqs, faq_vectors, vectorizer, now>>
    /\ UNCHANGED managerVars

\* line 141 reads self.faq_vectors and calls its any(), which ends the call
QueryFind ==
    /\ threads.reader = "141"
    /\ replied' = Reply("get_answer", replied.text, NoneStr, NoIntent,
                       NoResponse, <<>>, EmptyDict, <<>>,
                       get_answer(faqs, faq_vectors, replied.text, <<>>))
    /\ threads' = [threads EXCEPT !.reader = "idle"]
    /\ UNCHANGED <<conversation_history, faqs, faq_vectors, vectorizer, now>>
    /\ UNCHANGED managerVars

NextFaqThreads ==
    AddFaqAppend \/ BuildIndexFit \/ BuildIndexAssign \/ QueryBegin \/ QueryFind

SpecFaqThreads == Init /\ [][NextFaqThreads]_vars

----------------------------------------------------------------------------
(* InvoiceStorage (specification SpecStorage).  tests/test_vercel_compat.py *)
(* imports the class from backend/core/agent.py, which does not define it;  *)
(* the constructor is written here from what the test expects of it.        *)

\* the index of the last "/" of the first i characters of a path, or 0
RECURSIVE LastSlash(_, _)
LastSlash(path, i) ==
    IF i = 0 THEN 0
    ELSE IF CharAt(path, i) = "/" THEN i
    ELSE LastSlash(path, i - 1)

\* os.path.basename(path)
basename(path) == SubSeq(path, LastSlash(path, Len(path)) + 1, Len(path))

\* os.path.join(a, b)
PathJoin(a, b) ==
    IF Len(b) > 0 /\ CharAt(b, 1) = "/" THEN b
    ELSE IF a = "" \/ CharAt(a, Len(a)) = "/" THEN a \o b
    ELSE a \o "/" \o b

\* a storage that keeps the path it is given on every host
InvoiceStorage_no_redirect(path, environ) == [storage_path |-> path]

\* InvoiceStorage(path) with the environment variables of environ set
InvoiceStorage(path, environ) ==
    IF "VERCEL" \in environ
    THEN [storage_path |-> PathJoin("/tmp", basename(path))]
    ELSE [storage_path |-> path]

\* the paths a storage is constructed with: those of the tests and others
\* put together from a directory and a file name
Directories == {"", "data/", "any/path/", "/var/data/", "./", "/tmp/", "a/b/c/"}
FileNames ==
    {"invoices.json", "test_invoices.json", "invoices", "i.json", ".hidden",
     "a.b.c", "x", ""}
StoragePaths == {d \o f : d \in Directories, f \in FileNames}

\* the record of a construction: the path given, the environment variables
\* set, and the object constructed
Constructed(path, environ, storage) ==
    Reply("InvoiceStorage", path, NoneStr, NoIntent, NoResponse,
          IF "VERCEL" \in environ THEN <<"VERCEL">> ELSE <<>>,
          storage, <<>>, NoAnswer)

NewStorage ==
    /\ \E path \in StoragePaths, environ \in SUBSET {"VERCEL"} :
          replied' = Constructed(path, environ, InvoiceStorage(path, environ))
    /\ UNCHANGED <<conversation_history, faqVars, now>>
    /\ UNCHANGED managerVars

NextStorage == NewStorage

SpecStorage == Init /\ [][NextStorage]_vars

----------------------------------------------------------------------------
(* Properties of generate_response (specification Spec) *)

IsGenerate == last.op = "generate_response"

\* the first answer a provider gives in the last operation
FirstReply(p) == IF p = "gemini" THEN last.env.gemini[1] ELSE last.env.openai[1]
\* a transport error
CallRaises(p) == FirstReply(p).kind = "raise"
\* a plain text answer, carrying no tool request
AnswersPlainly(p) == FirstReply(p).kind = "text" /\ ~FirstReply(p).req.has

OtherProvider(p) == IF p = "gemini" THEN "openai" ELSE "gemini"

\* C1: when the active provider's call fails and another configured
\* provider's call succeeds, generate_response returns the other provider's
\* identifier and the other provider's reply.
C1_FallbackToOtherProvider ==
    \A a \in {"gemini", "openai"} :
        (/\ IsGenerate
         /\ active_provider = a
         /\ OtherProvider(a) \in providers
         /\ CallRaises(a)
         /\ AnswersPlainly(OtherProvider(a)))
        => /\ ~last.result.isNone
           /\ last.result.provider = OtherProvider(a)
           /\ last.result.content = FirstReply(OtherProvider(a)).text

C1_Witness ==
    /\ IsGenerate
    /\ active_provider = "gemini"
    /\ "openai" \in providers
    /\ CallRaises("gemini")
    /\ FirstReply("openai") = ReplyText("openai text")
    /\ last.result.provider = "openai"
    /\ last.result.content = "openai text"

\* C2: when no provider is configured, or every configured provider's call
\* fails, generate_response returns a dict (it does not raise) with
\* provider "fallback", no tool calls, and the apology followed by the
\* first 100 characters of the prompt.
C2_FallbackWhenAllFail ==
    (IsGenerate /\ \A p \in providers : CallRaises(p))
    => /\ ~last.result.isNone
       /\ last.result.provider = "fallback"
       /\ last.result.tool_calls = <<>>
       /\ last.result.content = "I'm sorry, but I couldn't process your request."
       /\ Len(last.result.echo) =
              (IF Len(last.prompt) < 100 THEN Len(last.prompt) ELSE 100)
       /\ \A i \in 1..Len(last.result.echo) : last.result.echo[i] = last.prompt[i]

C2_Witness ==
    /\ IsGenerate
    /\ providers = {"gemini", "openai"}
    /\ CallRaises("gemini") /\ CallRaises("openai")
    /\ Len(last.prompt) > 100
    /\ last.result.provider = "fallback"
    /\ Len(last.result.echo) = 100

\* position of a provider in the priority order Gemini, OpenAI
Priority(p) == IF p = "gemini" THEN 1 ELSE 2

\* C3: generate_response calls the active provider first; if that call
\* succeeds nothing else is called; otherwise the remaining configured
\* providers are called in priority order, each at most once, up to the
\* first success.
C3_CallOrder ==
    IsGenerate =>
        LET a == last.attempts
            n == Len(a)
        IN  /\ (active_provider # "none") => (n >= 1 /\ a[1].provider = active_provider)
            /\ \A i \in 1..n : a[i].provider \in providers
            /\ \A i, j \in 1..n : i # j => a[i].provider # a[j].provider
            /\ \A i, j \in 2..n : i < j => Priority(a[i].provider) < Priority(a[j].provider)
            /\ \A i \in 1..n : ~a[i].result.isNone => i = n
            /\ (n >= 1 /\ ~a[n].result.isNone) => last.result = a[n].result
            /\ (n = 0 \/ a[n].result.isNone) =>
                   /\ last.result.provider = "fallback"
                   /\ {a[i].provider : i \in 1..n} = providers

C3_Witness ==
    /\ IsGenerate
    /\ Len(last.attempts) = 2
    /\ last.attempts[1].provider = "gemini"
    /\ last.attempts[1].result.isNone
    /\ last.attempts[2].provider = "openai"
    /\ ~last.attempts[2].result.isNone

\* C4 (as claimed): a provider call that yields an empty reply text counts
\* as a failure: generate_response never returns that empty reply.
C4_EmptyReplyIsFailure ==
    IsGenerate =>
        \A i \in 1..Len(last.attempts) :
            FirstReply(last.attempts[i].provider) = ReplyText("")
            => /\ last.attempts[i].result.isNone
               /\ ~(last.result.provider = last.attempts[i].provider
                    /\ last.result.content = "")

\* C5 (as claimed): the registry holds exactly the three built-in tools, so
\* get_available_tools returns three schemas and a generate_response with
\* use_tools sends a non-empty tool list.
C5_DefaultToolsRegistered ==
    /\ Len(get_available_tools(tool_registry)) = 3
    /\ {get_available_tools(tool_registry)[i] :
           i \in 1..Len(get_available_tools(tool_registry))}
         = {"currency_converter", "get_current_time", "calculate"}
    /\ (IsGenerate /\ last.use_tools) => Len(last.tools.names) > 0

\* the first configured provider in the order Gemini, OpenAI
FirstConfigured ==
    IF "gemini" \in providers THEN "gemini"
    ELSE IF "openai" \in providers THEN "openai"
    ELSE "none"

\* C10: the active provider is always the first configured provider in the
\* order Gemini, OpenAI (none without credentials), and no operation
\* changes the active provider or the set of configured providers.
C10_ActiveProviderFixed ==
    /\ [](active_provider = FirstConfigured)
    /\ [][active_provider' = active_provider /\ providers' = providers]_vars

C10_Witness ==
    /\ last.op = "health_check"
    /\ providers = {"gemini", "openai"}
    /\ ~last.health["gemini"]
    /\ last.health["openai"]
    /\ active_provider = "gemini"

----------------------------------------------------------------------------
(* Properties of one provider call (specification SpecCall) *)

IsProviderCall == last.op \in {"_call_gemini", "_call_openai"}
CalledProvider == IF last.op = "_call_gemini" THEN "gemini" ELSE "openai"
\* the provider can be called: _call_gemini looks its model up in providers
Callable == last.op = "_call_gemini" => "gemini" \in providers

FollowupReply == IF last.op = "_call_gemini" THEN last.env.gemini[2]
                 ELSE last.env.openai[2]

\* C6 (as claimed): with tools enabled and a first reply that encodes a tool
\* invocation (name and arguments), the tool is executed exactly once, a
\* second call goes to the same provider with the prompt and the tool
\* result, and the value returned has the second call's text and exactly
\* one tool_calls record with that name, those arguments and that result.
C6_ToolCallThenFollowup ==
    (/\ IsProviderCall /\ Callable
     /\ ToolsTruthy(last.tools)
     /\ FirstReply(CalledProvider).kind = "text"
     /\ FirstReply(CalledProvider).req.has
     /\ FirstReply(CalledProvider).req.argform = "flat"
     /\ FollowupReply.kind = "text")
    => /\ Len(last.execs) = 1
       /\ last.execs[1].name = FirstReply(CalledProvider).req.name
       /\ last.execs[1].arguments = FirstReply(CalledProvider).req.arguments
       /\ Len(last.calls) = 2
       /\ last.calls[2].provider = CalledProvider
       /\ last.calls[2].prompt = last.prompt
       /\ last.calls[2].tool = last.execs[1]
       /\ ~last.result.isNone
       /\ last.result.content = FollowupReply.text
       /\ last.result.tool_calls = <<last.execs[1]>>

\* C7 (as claimed): with a non-empty tool list and a reply that encodes no
\* tool call, the provider call returns the reply text with no tool calls
\* and the provider's identifier, for every provider.
C7_PlainReplyReturned ==
    (/\ IsProviderCall /\ Callable
     /\ ToolsTruthy(last.tools)
     /\ AnswersPlainly(CalledProvider))
    => last.result = Result(FirstReply(CalledProvider).text, <<>>, CalledProvider)

----------------------------------------------------------------------------
(* Properties of ToolCall.execute (specification SpecTool) *)

IsExecute == last.op = "execute"
ExecutedName == last.execs[1].name
ExecutedExpression == Get(last.execs[1].arguments, "expression", TextVal(<<>>)).chars

\* C8 (as claimed): calculate returns the value of an expression made of
\* whitelisted characters ("2+2*5" gives 12) and "Invalid expression" for
\* an expression with any other character.
C8_CalculateWhitelist ==
    (IsExecute /\ ExecutedName = "calculate")
    => /\ (MatchesWhitelist(ExecutedExpression) /\ ~IsRaise(PyEval(ExecutedExpression)))
              => last.ret = PyEval(ExecutedExpression)
       /\ ExecutedExpression = <<"2", "+", "2", "*", "5">> => last.ret = IntVal(12)
       /\ (\E i \in 1..Len(ExecutedExpression) :
               ExecutedExpression[i] \notin WhitelistChars)
              => last.ret = StrVal("Invalid expression")

\* C9 (as claimed): execute never raises; an unsupported currency code (the
\* rate service answering), a malformed expression and an unknown tool name
\* each give a result string.
C9_ExecuteNeverRaises ==
    IsExecute
    => /\ (ExecutedName = "currency_converter" /\ last.net.kind = "rates")
              => ~IsRaise(last.ret)
       /\ ExecutedName = "calculate" => last.ret.kind \in {"str", "int"}
       /\ ExecutedName \notin {"currency_converter", "get_current_time", "calculate"}
              => (last.ret.kind = "unknown_tool" /\ last.ret.str = ExecutedName)

----------------------------------------------------------------------------
(* Properties of process_message (specification SpecChat) *)

IsProcess == replied.op = "process_message"

Asks(component) ==
    \E i \in 1..Len(replied.stages) : replied.stages[i] = component

\* C11 (as claimed): process_message asks the response generator first; when
\* no category matched the question, so that the generator gave only its
\* general welcome, it asks the FAQ retriever next, and the language-model
\* orchestrator after the retriever.
C11_ThreeStageResolution ==
    IsProcess
    => /\ Asks("response_generator")
       /\ replied.intent.type = GENERAL => Asks("faq_retriever")
       /\ Asks("llm_orchestrator") => Asks("faq_retriever")

\* the answer the generator gives to a text
AnswerTo(text) == Respond(parse(text), text).answer

\* C19: the log holds one turn per call, in call order, each with the user
\* text, a timestamp and the answer generated for that text; a call appends
\* one turn and leaves the earlier turns as they were.
C19_LogAppendOnly ==
    /\ [](\A i \in 1..Len(conversation_history) :
             /\ DOMAIN conversation_history[i] = {"user", "timestamp", "response"}
             /\ conversation_history[i].response
                    = AnswerTo(conversation_history[i].user))
    /\ [][/\ Len(conversation_history') = Len(conversation_history) + 1
          /\ SubSeq(conversation_history', 1, Len(conversation_history))
                 = conversation_history
          /\ conversation_history'[Len(conversation_history')].user = replied'.text
          /\ conversation_history'[Len(conversation_history')].timestamp
                 = TimeVal(now')]_<<conversation_history, replied>>

C19_Witness ==
    /\ IsProcess
    /\ Len(conversation_history) = 2
    /\ conversation_history[1].user /= conversation_history[2].user
    /\ conversation_history[1].response /= conversation_history[2].response

----------------------------------------------------------------------------
(* Properties of parse and generate_response (specification SpecParse) *)

IsResolved == replied.op = "generate_response"

\* the lower-cased question of the last operation
Lowered == lower(replied.text)

HasPricing == AnyIn(PricingKeywords, Lowered)
HasContact == AnyIn(ContactKeywords, Lowered)
HasLocation == AnyIn(LocationKeywords, Lowered)
HasFacility == AnyIn(FacilityKeywords, Lowered)

\* C12: the category is pricing if a pricing keyword occurs in the
\* lower-cased question, else contact if a contact keyword does, else
\* location, else facility, else general with is_specific false and no
\* entity.
C12_OrderedCascade ==
    IsResolved
    => /\ HasPricing => replied.intent.type = PRICING
       /\ (~HasPricing /\ HasContact) => replied.intent.type = CONTACT
       /\ (~HasPricing /\ ~HasContact /\ HasLocation)
              => replied.intent.type = LOCATION
       /\ (~HasPricing /\ ~HasContact /\ ~HasLocation /\ HasFacility)
              => replied.intent.type = FACILITY
       /\ (~HasPricing /\ ~HasContact /\ ~HasLocation /\ ~HasFacility)
              => replied.intent = UserIntent(GENERAL, FALSE, NoneStr, NoneStr)


\* the pattern table of a category that has one
TableOf(type) ==
    IF type = PRICING THEN pricing_patterns
    ELSE IF type = CONTACT THEN contact_patterns
    ELSE location_patterns

\* where a pattern first occurs in a text
Position(text, pattern) ==
    CHOOSE i \in 1..Len(text) :
        /\ SubSeq(text, i, i + Len(pattern) - 1) = pattern
        /\ \A j \in 1..(i - 1) : SubSeq(text, j, j + Len(pattern) - 1) /= pattern

\* a question with keywords of several categories, the contact keyword first
C12_Witness ==
    /\ IsResolved
    /\ HasContact /\ HasFacility
    /\ Contains(Lowered, "contact") /\ Contains(Lowered, "price")
    /\ Position(Lowered, "contact") < Position(Lowered, "price")
    /\ replied.intent.type = PRICING

\* entity is what the table gives for the question: None when no entry has a
\* phrase in it, else the entry before which no entry has one
FirstInTable(table, question, entity) ==
    IF \A k \in 1..Len(table) : ~AnyIn(table[k].patterns, question)
    THEN entity = NoneStr
    ELSE \E k \in 1..Len(table) :
            /\ table[k].entity = entity
            /\ AnyIn(table[k].patterns, question)
            /\ \A j \in 1..(k - 1) : ~AnyIn(table[j].patterns, question)

\* C13: in a category with a pattern table the entity is the first entry of
\* the table, in table order, one of whose phrases occurs in the lower-cased
\* question.
C13_FirstEntityInTableOrder ==
    (IsResolved /\ replied.intent.type \in {PRICING, CONTACT, LOCATION})
    => FirstInTable(TableOf(replied.intent.type), Lowered, replied.intent.entity)

\* phrases of two entities occur, the one of the later entry first
C13_Witness ==
    /\ IsResolved
    /\ replied.intent.type = CONTACT
    /\ replied.intent.entity = "sales"
    /\ Contains(Lowered, "support") /\ Contains(Lowered, "visit")
    /\ Position(Lowered, "support") < Position(Lowered, "visit")

\* C14: a question with a pricing keyword and no phrase of the pricing table
\* is pricing with no entity and is_specific false; and is_specific is true
\* exactly when an entity was matched.
C14_SpecificIffEntity ==
    IsResolved
    => /\ (HasPricing /\ \A k \in 1..Len(pricing_patterns) :
                             ~AnyIn(pricing_patterns[k].patterns, Lowered))
              => /\ replied.intent.type = PRICING
                 /\ replied.intent.entity = NoneStr
                 /\ ~replied.intent.is_specific
       /\ replied.intent.is_specific <=> (replied.intent.entity /= NoneStr)

\* a pricing question without an entity that names a timeframe
C14_Witness ==
    /\ IsResolved
    /\ HasPricing
    /\ replied.intent = UserIntent(PRICING, FALSE, NoneStr, "monthly")

\* the confidence the claim gives each branch
ClaimedConfidence(intent, question_lower) ==
    IF intent.type = PRICING
    THEN IF ~intent.is_specific THEN 90
         ELSE IF intent.entity \notin DOMAIN PricingData THEN 60 ELSE 95
    ELSE IF intent.type = CONTACT
    THEN IF intent.entity = "sales" \/ Contains(question_lower, "visit")
            \/ Contains(question_lower, "tour")
         THEN 95 ELSE 90
    ELSE IF intent.type = LOCATION
    THEN IF intent.entity /= NoneStr THEN 95 ELSE 90
    ELSE IF intent.type = FACILITY
    THEN IF intent.entity \in {"parking", "internet"} THEN 95 ELSE 90
    ELSE 70

\* C15: the confidence is the constant of the branch taken, and the source
\* is "knowledge_base" except for a general question, where it is
\* "general_knowledge".
C15_ConfidenceByBranch ==
    IsResolved
    => /\ replied.response.raised = ""
       /\ replied.response.confidence = ClaimedConfidence(replied.intent, Lowered)
       /\ replied.response.source
              = (IF replied.intent.type = GENERAL THEN "general_knowledge"
                 ELSE "knowledge_base")

\* an unspecific pricing question
C15_Witness ==
    /\ IsResolved
    /\ replied.intent.type = PRICING
    /\ ~replied.intent.is_specific
    /\ replied.response.confidence = 90

\* C17: "What's the per seat cost?" is a pricing question about co-working,
\* and every pricing question about co-working is answered with confidence
\* 0.95 by a text that contains a price range the knowledge base stores for
\* co-working.
C17_CoWorkingPriceRange ==
    IsResolved
    => /\ replied.text = "What's the per seat cost?"
              => /\ replied.intent.type = PRICING
                 /\ replied.intent.entity = "co-working"
                 /\ Contains(replied.response.answer, PricingData["co-working"].monthly)
       /\ (replied.intent.type = PRICING /\ replied.intent.entity = "co-working")
              => /\ replied.response.confidence = 95
                 /\ \/ Contains(replied.response.answer,
                                PricingData["co-working"].monthly)
                    \/ Contains(replied.response.answer,
                                PricingData["co-working"].daily)

C17_Witness ==
    /\ IsResolved
    /\ replied.text = "What's the per seat cost?"
    /\ replied.response.confidence = 95

\* C18: "Where is your Electronic City center?" is a location question about
\* electronic_city, and a location question about a center is answered
\* without error, with confidence 0.95, by a text that contains the address
\* and the phone number stored for that center.
C18_CenterAddressAndPhone ==
    IsResolved
    => /\ replied.text = "Where is your Electronic City center?"
              => /\ replied.intent.type = LOCATION
                 /\ replied.intent.entity = "electronic_city"
       /\ (replied.intent.type = LOCATION /\ replied.intent.entity /= NoneStr)
              => /\ replied.response.raised = ""
                 /\ replied.response.confidence = 95
                 /\ Contains(replied.response.answer,
                             LocationData[replied.intent.entity])
                 /\ Contains(replied.response.answer,
                             CenterContacts[replied.intent.entity].phone)

C18_Witness ==
    /\ IsResolved
    /\ replied.text = "Where is your Electronic City center?"
    /\ replied.intent.entity = "electronic_city"
    /\ Contains(replied.response.answer, "Phase 1, Near Infosys, Electronic City")
    /\ Contains(replied.response.answer, "080-4111-4444")

----------------------------------------------------------------------------
(* Properties of the knowledge-base accessors (specification SpecKb) *)

\* C16 (as claimed): for a key its table does not hold, get_pricing and
\* get_facility return an empty mapping, get_contact returns the "general"
\* entry and get_location returns the whole location table.
C16_AccessorFallbacks ==
    /\ (replied.op = "get_pricing" /\ replied.text \notin DOMAIN PricingData)
           => DOMAIN replied.out = {}
    /\ (replied.op = "get_facility" /\ replied.text \notin DOMAIN FacilityData)
           => DOMAIN replied.out = {}
    /\ (replied.op = "get_contact" /\ replied.text \notin DOMAIN ContactData)
           => replied.out = ContactData.general
    /\ (replied.op = "get_location" /\ replied.text \notin DOMAIN LocationData)
           => replied.out = LocationData

----------------------------------------------------------------------------
(* Properties of get_answer (specification SpecFaq) *)

IsGetAnswer == replied.op = "get_answer"

\* the highest similarity computed for the query
Best(s) == IF s = <<>> THEN 0 ELSE s[CHOOSE i \in 1..Len(s) : \A j \in 1..Len(s) : s[j] <= s[i]]

\* C20 (as claimed): get_answer returns (answer, true) exactly when the
\* highest similarity is above 0.3, the answer being the stored answer of an
\* entry of that similarity, and (None, false) otherwise; a blank query and
\* a query that shares no term with a question give matched = false.
C20_AcceptAboveThreshold ==
    IsGetAnswer
    => /\ replied.found.raised = ""
       /\ replied.found.matched <=> (Best(replied.similarities) > AcceptThreshold)
       /\ replied.found.matched
              => \E i \in 1..Len(faqs) :
                    /\ replied.similarities[i] = Best(replied.similarities)
                    /\ replied.found.answer = faqs[i].answer
       /\ ~replied.found.matched => replied.found.answer = NoneStr
       /\ (IsBlank(replied.text)
           \/ Sharing(QueryVector(replied.text, vectorizer), faq_vectors) = {})
              => ~replied.found.matched

----------------------------------------------------------------------------
(* Further properties of one provider call (specification SpecCall) *)

\* the first reply asks for the current-time tool without arguments
AsksCurrentTime ==
    /\ FirstReply("gemini").kind = "text"
    /\ FirstReply("gemini").req.has
    /\ FirstReply("gemini").req.name = "get_current_time"
    /\ FirstReply("gemini").req.argform \in {"absent", "empty"}

\* C27 (as claimed): on the Gemini path a request for get_current_time with
\* no arguments, or with an empty arguments object, is handled like any
\* other tool request: the tool is executed, a follow-up call is made and
\* the provider call succeeds.
C27_CurrentTimeRequestHandled ==
    (/\ last.op = "_call_gemini" /\ Callable
     /\ ToolsTruthy(last.tools)
     /\ AsksCurrentTime
     /\ FollowupReply.kind = "text")
    => /\ Len(last.execs) = 1
       /\ last.execs[1].name = "get_current_time"
       /\ Len(last.calls) = 2
       /\ ~last.result.isNone
       /\ last.result.content = FollowupReply.text

\* C28 (as claimed): on every provider path, a text that came from the
\* provider is passed to eval only after the arithmetic whitelist has
\* matched it; this includes the decoding of a tool call's arguments.
C28_WhitelistBeforeEvaluate ==
    IsProviderCall
    => \A i \in 1..Len(last.evals) : last.evals[i].whitelisted

----------------------------------------------------------------------------
(* Further properties of parse and generate_response (specification        *)
(* SpecParse)                                                              *)

\* the question is resolved as a pricing question about one service
IsSpecificPricing ==
    /\ IsResolved
    /\ replied.intent.type = PRICING
    /\ replied.intent.is_specific

\* C29 (as claimed): every entity of the pricing pattern table is a key of
\* the pricing table, so a specific pricing intent is answered from the
\* entity's pricing entry with confidence 0.95, never by the clarifying
\* question with confidence 0.6.
C29_PricingEntitiesPriced ==
    IsSpecificPricing
    => /\ replied.intent.entity \in DOMAIN KbData.pricing
       /\ replied.response.confidence = 95
       /\ replied.response.answer
              = _format_specific_pricing(
                    replied.intent.entity,
                    get_pricing(replied.intent.entity,
                                TimeframeOrMonthly(replied.intent)),
                    TimeframeOrMonthly(replied.intent))

\* C30 (as claimed): in the co-working pricing answer the price and the unit
\* belong to the same timeframe, whatever timeframe the question names: the
\* monthly price is shown with "/month" only and the daily price with
\* "/day" only.
C30_PriceAndUnitAgree ==
    (IsSpecificPricing /\ replied.intent.entity = "co-working")
    => /\ Contains(replied.response.answer, PricingData["co-working"].monthly)
              => Contains(replied.response.answer,
                          PricingData["co-working"].monthly \o "/month")
       /\ Contains(replied.response.answer, PricingData["co-working"].daily)
              => Contains(replied.response.answer,
                          PricingData["co-working"].daily \o "/day")

----------------------------------------------------------------------------
(* Properties of get_exchange_rate (specification SpecRate) *)

\* the cache key of the pair the last call asked for
AskedKey(op) == CacheKey(op.prompt[1], op.prompt[2])

\* the rate the service's table t gives for the pair
RateOf(t, from_currency, to_currency) == RateVal(t[to_currency], t[from_currency])

\* a step of get_exchange_rate: the clock stands still and `last` is the
\* call made.  It serves the cache only if the entry of that ordered pair is
\* younger than 30 minutes, and then returns that entry and leaves the cache
\* alone; it asks the service only if there is no entry for the pair or the
\* entry is at least 30 minutes old; a failed fetch changes neither the
\* cache nor its timestamps.
RateStep ==
    now' = now
    => /\ last'.op = "get_exchange_rate"
       /\ last'.calls = <<>>
              => /\ AskedKey(last') \in DOMAIN cache
                 /\ now - last_cache_update[AskedKey(last')] < CacheDurationMinutes
                 /\ last'.ret = cache[AskedKey(last')]
                 /\ cache' = cache /\ last_cache_update' = last_cache_update
       /\ last'.calls /= <<>>
              => \/ AskedKey(last') \notin DOMAIN cache
                 \/ now - last_cache_update[AskedKey(last')] >= CacheDurationMinutes
       /\ last'.ret.kind = "raise"
              => cache' = cache /\ last_cache_update' = last_cache_update

\* every entry of the cache is a rate of its own ordered pair, never that of
\* the reversed pair, and has a timestamp
CacheKeyedByOrderedPair ==
    /\ DOMAIN cache = DOMAIN last_cache_update
    /\ \A pair \in RatePairs :
          CacheKey(pair[1], pair[2]) \in DOMAIN cache
          => \E net \in RateReplies :
                /\ net.kind = "rates"
                /\ cache[CacheKey(pair[1], pair[2])]
                       = RateOf(net.rates, pair[1], pair[2])

\* C25: get_exchange_rate consults the cache, keyed by the ordered pair,
\* before any network call: it fetches only when the pair has no entry or
\* the entry is at least 30 minutes old, a value served from the cache is
\* younger than 30 minutes and is the entry of that ordered pair, and a
\* failed fetch leaves the cache and its timestamps unchanged.
C25_CacheBeforeFetch ==
    [] CacheKeyedByOrderedPair /\ [][RateStep]_vars

\* a rate served from the cache 15 minutes after it was fetched, while the
\* reversed pair is cached too
C25_Witness ==
    /\ last.op = "get_exchange_rate"
    /\ last.calls = <<>>
    /\ last.prompt = <<"USD", "INR">>
    /\ now - last_cache_update[CacheKey("USD", "INR")] = 15
    /\ CacheKey("INR", "USD") \in DOMAIN cache
    /\ last.ret = cache[CacheKey("USD", "INR")]

----------------------------------------------------------------------------
(* Properties of the FAQ index (specifications SpecFaq and SpecFaqThreads) *)

\* the entry add_faq appended last
LastAdded == faqs[Len(faqs)]

\* get_answer was asked the question of the entry added last
AsksLastAdded ==
    /\ IsGetAnswer
    /\ Len(faqs) > Len(_load_default_faqs)
    /\ replied.text = LastAdded.question

\* C21 (as claimed): after add_faq(q, a, c), get_answer(q) returns
\* (a, true), the added entry having the highest similarity there is.
C21_AddedFaqRetrievable ==
    AsksLastAdded
    => /\ replied.found = Answer("", LastAdded.answer, TRUE)
       /\ replied.similarities[Len(faqs)] = Best(replied.similarities)
       /\ replied.similarities[Len(faqs)] = 100

\* C22: after construction and after every add_faq the index has one row
\* per entry, row i being the vector of the i-th question in insertion
\* order under the vocabulary fitted on all the questions there are now:
\* add_faq rebuilds the index as a whole.
C22_IndexRowPerFaq ==
    /\ ~faq_vectors.none
    /\ Len(faq_vectors.rows) = Len(faqs)
    /\ vectorizer.fitted
    /\ vectorizer.vocabulary_ = UNION {Terms(faqs[i].question) : i \in 1..Len(faqs)}
    /\ faq_vectors.columns = vectorizer.vocabulary_
    /\ \A i \in 1..Len(faqs) :
          faq_vectors.rows[i] = Terms(faqs[i].question) \cap vectorizer.vocabulary_

\* an entry was added whose question has terms no question had before
C22_Witness ==
    /\ replied.op = "add_faq"
    /\ Len(faqs) = Len(_load_default_faqs) + 1
    /\ "refund" \in faq_vectors.rows[Len(faqs)]
    /\ "refund" \notin Vocabulary(_load_default_faqs)
    /\ faq_vectors.rows[1] = Terms(_load_default_faqs[1].question)

\* get_contextual_answer has returned or raised
IsContextual == replied.op = "get_contextual_answer"

\* an entry is accepted for the query of the last operation: the highest
\* similarity is above 0.3 and the query is not blank
EntryAccepted ==
    /\ ~IsBlank(replied.text)
    /\ Best(replied.similarities) > AcceptThreshold

\* C23 (as claimed): get_contextual_answer lets no exception escape; when
\* an entry is accepted and the rephrasing call fails it returns the stored
\* answer of that entry unchanged; when no entry is accepted it returns None
\* and does not call the model.
C23_ContextualFallback ==
    IsContextual
    => /\ replied.found.raised = ""
       /\ (EntryAccepted /\ replied.out.kind = "raise")
              => \E i \in 1..Len(faqs) :
                    /\ replied.similarities[i] = Best(replied.similarities)
                    /\ replied.found.answer = faqs[i].answer
       /\ ~EntryAccepted
              => (replied.found.answer = NoneStr /\ replied.stages = <<>>)

\* the list, the fitted vocabulary and the matrix belong to one build
OneBuild ==
    /\ ~faq_vectors.none
    /\ Len(faq_vectors.rows) = Len(faqs)
    /\ faq_vectors.columns = vectorizer.vocabulary_

\* C24 (as claimed): while a thread is inside get_answer, the FAQ list, the
\* fitted vocabulary and the index matrix it reads belong to the same build,
\* whatever add_faq is doing in another thread.
C24_ReaderSeesOneBuild ==
    threads.reader = "141" => OneBuild

----------------------------------------------------------------------------
(* Properties of InvoiceStorage (specification SpecStorage) *)

IsStorage == replied.op = "InvoiceStorage"

\* name is the last component of path: it has no "/" and path is name, or
\* ends with "/" followed by name
IsLastComponent(name, path) ==
    /\ ~Contains(name, "/")
    /\ Len(name) <= Len(path)
    /\ SubSeq(path, Len(path) - Len(name) + 1, Len(path)) = name
    /\ (Len(name) < Len(path) => CharAt(path, Len(path) - Len(name)) = "/")

\* C26: with VERCEL set, storage_path is "/tmp" joined with the base name
\* of the path given ("any/path/invoices.json" gives "/tmp/invoices.json");
\* with VERCEL not set, storage_path is the path given.
C26_StorageRedirect ==
    IsStorage
    => /\ replied.stages = <<>> => replied.out.storage_path = replied.text
       /\ replied.stages = <<"VERCEL">>
              => /\ Len(replied.out.storage_path) >= 5
                 /\ SubSeq(replied.out.storage_path, 1, 5) = "/tmp/"
                 /\ IsLastComponent(SubSeq(replied.out.storage_path, 6,
                                            Len(replied.out.storage_path)),
                                     replied.text)
       /\ (replied.stages = <<"VERCEL">> /\ replied.text = "any/path/invoices.json")
              => replied.out.storage_path = "/tmp/invoices.json"

\* the storage of the first test: constructed with VERCEL set
C26_Witness ==
    /\ IsStorage
    /\ replied.stages = <<"VERCEL">>
    /\ replied.text = "any/path/invoices.json"
    /\ replied.out.storage_path = "/tmp/invoices.json"

====
